---- MODULE Spec2Model ----
(***************************************************************************)
(* A model of vulkanalia-bootstrap's device selection (src/src/device.rs)  *)
(* and swapchain negotiation (src/src/swapchain.rs).                       *)
(*                                                                         *)
(* Vulkan flag words are modelled as sets of flag names (contains = subset *)
(* of), VkBool32 feature structs as the set of the fields that are VK_TRUE,*)
(* versions by their minor number, handles by small integers or strings.   *)
(***************************************************************************)
EXTENDS Integers, Sequences, FiniteSets, TLC

VARIABLES
    instance,       \* the Instance the selector was built from
    driver,         \* what the Vulkan driver enumerates: [ok, devices]
    selector,       \* PhysicalDeviceSelector: [surface, criteria]
    pc,             \* "configuring" | "selected"
    selected,       \* result of PhysicalDeviceSelector::select
    builder,        \* SwapchainBuilder
    surface_support,\* what the driver reports for the surface
    built,          \* result of the last SwapchainBuilder::build
    calls,          \* the swapchain calls made to the driver, in order
    added,          \* the nodes passed to add_required_extension_feature,
                    \* in order (kept in SpecChain)
    returned,       \* the last call on the selected PhysicalDevice and its result
    physical,       \* the PhysicalDevice handed to DeviceBuilder::new
    created_device, \* result of DeviceBuilder::build
    fetched,        \* the last queue lookup on the Device and its result
    image_views,    \* Swapchain.image_views, the list behind the mutex
    threads,        \* where each thread stands in a Swapchain method
    views_created,  \* how many image views the driver has created (1..views_created)
    views_destroyed \* the image views passed to destroy_image_view, in order

vars == <<instance, driver, selector, pc, selected, builder, surface_support, built,
          calls, added, returned, physical, created_device, fetched,
          image_views, threads, views_created, views_destroyed>>

selection_vars == <<instance, driver, selector, pc, selected, added>>
swapchain_vars == <<builder, surface_support, built, calls>>
device_vars == <<returned, physical, created_device, fetched>>
view_vars == <<image_views, threads, views_created, views_destroyed>>

\* ------------------------------------------------------------- bounds
\* at most this many physical devices are enumerated by the driver
MaxDevices == 2
\* at most this many requirements are configured on one selector
MaxRequirements == 2
\* calls of add_required_extension_feature on one selector in SpecChain
MaxAdds == 3

\* ---------------------------------------------------- program constants
\* Version::V1_1_0, by its minor number
V1_1_0 == 1

None == "None"
NoDevice == [name |-> "None"]

\* ------------------------------------------------------------ helpers
Min(a, b) == IF a < b THEN a ELSE b
Max(a, b) == IF a > b THEN a ELSE b

RECURSIVE SumSeq(_)
SumSeq(s) == IF s = <<>> THEN 0 ELSE Head(s) + SumSeq(Tail(s))

\* Option<usize>: <<>> is None, <<i>> is Some(i)
NoIndex == <<>>
Some(i) == <<i>>

\* iter().position(Test): the 0-based index of the first element of s that
\* satisfies Test
Position(s, Test(_)) ==
    IF \E i \in DOMAIN s : Test(s[i])
    THEN Some((CHOOSE i \in DOMAIN s :
                 Test(s[i]) /\ \A j \in 1..(i - 1) : ~Test(s[j])) - 1)
    ELSE NoIndex

\* ------------------------------------------------- the driver's devices
\* device_type is the raw VkPhysicalDeviceType: 0 other, 1 integrated GPU,
\* 2 discrete GPU, 3 virtual GPU, 4 CPU.

\* the feature fields of each pNext feature struct that the model tracks
FeatureFields(s_type) ==
    CASE s_type = "Vulkan11" -> {"multiview", "protected_memory"}
      [] s_type = "Vulkan12" -> {"descriptor_indexing"}
      [] s_type = "Vulkan13" -> {"maintenance4"}

FeatureTypes == {"Vulkan11", "Vulkan12", "Vulkan13"}

\* A reference device as the driver reports it: a discrete GPU with a
\* graphics family, a compute+transfer family and a transfer-only family.
BaseDevice ==
    [ device_name |-> "gpuA",
      api_version |-> 2,
      device_type |-> 2,
      queue_families |-> << {"GRAPHICS", "COMPUTE", "TRANSFER"},
                            {"COMPUTE", "TRANSFER"},
                            {"TRANSFER"} >>,
      features |-> {"geometry_shader"},
      memory_heaps |-> << [size |-> 4, device_local |-> TRUE],
                          [size |-> 1, device_local |-> FALSE] >>,
      extensions |-> [ok |-> TRUE, names |-> {"extA", "extB"}],
      features2 |-> [t \in FeatureTypes |->
                        IF t = "Vulkan11" THEN {"multiview"} ELSE FeatureFields(t)],
      present_support |-> <<"true", "false", "false">>,
      surface_formats |-> [ok |-> TRUE, len |-> 1],
      surface_present_modes |-> [ok |-> TRUE, len |-> 1] ]

\* The devices a driver may enumerate, by profile name.
Profile(p) ==
    CASE p = "base"       -> BaseDevice
      [] p = "integrated" -> [BaseDevice EXCEPT
                                !.device_name = "gpuB",
                                !.device_type = 1,
                                !.queue_families = << {"GRAPHICS", "COMPUTE", "TRANSFER"},
                                                      {"COMPUTE", "TRANSFER"} >>,
                                !.present_support = << "err", "true" >>]
      [] p = "noextB"     -> [BaseDevice EXCEPT
                                !.extensions.names = {"extA"},
                                !.queue_families = << {"GRAPHICS", "COMPUTE", "TRANSFER"} >>,
                                !.present_support = << "true" >>,
                                !.memory_heaps = << [size |-> 2, device_local |-> TRUE] >>]
      [] p = "bare"       -> [BaseDevice EXCEPT
                                !.device_type = 1,
                                !.api_version = 0,
                                !.features = {},
                                !.features2 = [t \in FeatureTypes |-> {}]]
      [] p = "present2"   -> [BaseDevice EXCEPT
                                !.present_support = <<"false", "false", "true">>]
      [] p = "broken"     -> [BaseDevice EXCEPT
                                !.extensions = [ok |-> FALSE, names |-> {}],
                                !.present_support = <<"false", "err", "false">>,
                                !.surface_formats = [ok |-> TRUE, len |-> 0],
                                !.surface_present_modes = [ok |-> FALSE, len |-> 0]]

Profiles == {"base", "integrated", "noextB", "bare", "broken"}

\* vkEnumeratePhysicalDevices: the handle of a device is its position
DeviceLists == UNION {[1..n -> Profiles] : n \in 0..MaxDevices}

Drivers == {[ok |-> FALSE, devices |-> <<>>]}
           \cup {[ok |-> TRUE, devices |-> l] : l \in DeviceLists}

\* what the driver reports for the device with this handle
DriverDevice(handle) == Profile(driver.devices[handle])

\* ------------------------------------------------------- the instance
\* Instance as InstanceBuilder::build leaves it; properties2_ext_enabled
\* needs api_version < 1.1, and the portability feature is a build flag.
Instances ==
    { [surface |-> "surface", instance_version |-> 2, api_version |-> 2,
       properties2_ext_enabled |-> FALSE, portability |-> FALSE],
      [surface |-> "surface", instance_version |-> 0, api_version |-> 0,
       properties2_ext_enabled |-> FALSE, portability |-> TRUE],
      [surface |-> None, instance_version |-> 0, api_version |-> 0,
       properties2_ext_enabled |-> TRUE, portability |-> FALSE] }

\* ------------------------------------------------------ queue lookups
get_first_queue_index(families, desired_flags) ==
    LET Has(f) == desired_flags \subseteq f
    IN Position(families, Has)

\* the loop of get_separate_queue_index over families[from..], index being
\* the fallback recorded so far
RECURSIVE SeparateScan(_, _, _, _, _)
SeparateScan(families, desired_flags, undesired_flags, from, index) ==
    IF from > Len(families) THEN index
    ELSE IF desired_flags \subseteq families[from]
            /\ ~({"GRAPHICS"} \subseteq families[from])
         THEN IF ~(undesired_flags \subseteq families[from])
              THEN Some(from - 1)
              ELSE SeparateScan(families, desired_flags, undesired_flags,
                                from + 1, Some(from - 1))
         ELSE SeparateScan(families, desired_flags, undesired_flags,
                           from + 1, index)

get_separate_queue_index(families, desired_flags, undesired_flags) ==
    SeparateScan(families, desired_flags, undesired_flags, 1, NoIndex)

\* get_dedicated_queue_index accepting a graphics family
get_dedicated_queue_index_with_graphics(families, desired_flags, undesired_flags) ==
    LET Is(f) == /\ desired_flags \subseteq f
                 /\ ~(undesired_flags \subseteq f)
    IN Position(families, Is)

get_dedicated_queue_index(families, desired_flags, undesired_flags) ==
    LET Is(f) == /\ desired_flags \subseteq f
                 /\ ~({"GRAPHICS"} \subseteq f)
                 /\ ~(undesired_flags \subseteq f)
    IN Position(families, Is)

\* present_support[i] is the driver's answer for family i against the
\* surface: "true", "false" or "err"; without a surface nothing is probed
get_present_queue_index(present_support, surface, families) ==
    LET Yes(i) == surface # None /\ present_support[i] = "true"
    IN IF \E i \in DOMAIN families : Yes(i)
       THEN Some((CHOOSE i \in DOMAIN families :
                     Yes(i) /\ \A j \in 1..(i - 1) : ~Yes(j)) - 1)
       ELSE NoIndex

\* mutant: every required extension is taken as supported
check_device_extension_support_unchecked(available_extensions, required_extensions) ==
    required_extensions

check_device_extension_support(available_extensions, required_extensions) ==
    {req_ext \in required_extensions :
        \E avail_ext \in available_extensions : avail_ext = req_ext}

\* --------------------------------------------------- feature chains
\* A node is [s_type, fields]: fields is the set of the fields set to VK_TRUE.

\* match_features asking for the same fields on both sides
match_features_exact(requested, supported) ==
    requested.fields = supported.fields

match_features(requested, supported) ==
    \A f \in FeatureFields(requested.s_type) :
        ~(f \in requested.fields /\ f \notin supported.fields)

\* combine that takes the other node's fields
combine_overwriting(node, other) == [node EXCEPT !.fields = other.fields]

combine(node, other) == [node EXCEPT !.fields = node.fields \cup other.fields]

\* add that pushes every node
GenericFeatureChain_add_pushing(nodes, new_node) == Append(nodes, new_node)

\* GenericFeatureChain::add on the node list
GenericFeatureChain_add(nodes, new_node) ==
    LET Same(n) == n.s_type = new_node.s_type
        at == Position(nodes, Same)
    IN IF at # NoIndex
       THEN [nodes EXCEPT ![at[1] + 1] = combine(nodes[at[1] + 1], new_node)]
       ELSE Append(nodes, new_node)

\* match_all over the common prefix, without the length check
match_all_zipped(self_nodes, features_requested) ==
    \A i \in DOMAIN features_requested \cap DOMAIN self_nodes :
        match_features(features_requested[i], self_nodes[i])

\* self.match_all(features_requested)
match_all(self_nodes, features_requested) ==
    IF Len(features_requested) # Len(self_nodes) THEN FALSE
    ELSE \A i \in DOMAIN features_requested :
            match_features(features_requested[i], self_nodes[i])

\* supports_features asking for exactly the supported flags
supports_features_exact(supported, requested, features_supported, features_requested) ==
    IF requested # supported THEN FALSE
    ELSE match_all(features_supported, features_requested)

supports_features(supported, requested, features_supported, features_requested) ==
    IF \E feature \in requested : feature \notin supported THEN FALSE
    ELSE match_all(features_supported, features_requested)

\* ------------------------------------------------ selection criteria
\* PreferredDeviceType as u8
PreferredDeviceTypeRaw(t) ==
    CASE t = "Other" -> 0
      [] t = "Integrated" -> 1
      [] t = "Discrete" -> 2
      [] t = "VirtualGpu" -> 3
      [] t = "Cpu" -> 4

\* Suitable derives Ord: Yes < Partial < No
SuitableRank(s) ==
    CASE s = "Yes" -> 0
      [] s = "Partial" -> 1
      [] s = "No" -> 2

\* impl Default for SelectionCriteria (required_formats, which nothing
\* reads, is left out)
DefaultCriteria ==
    [ name |-> "",
      preferred_device_type |-> "Discrete",
      allow_any_type |-> TRUE,
      require_present |-> TRUE,
      require_dedicated_transfer_queue |-> FALSE,
      require_dedicated_compute_queue |-> FALSE,
      require_separate_transfer_queue |-> FALSE,
      require_separate_compute_queue |-> FALSE,
      required_mem_size |-> 0,
      required_extensions |-> {},
      required_version |-> 0,
      required_features |-> {},
      requested_features_chain |-> <<>>,
      defer_surface_initialization |-> FALSE,
      use_first_gpu_unconditionally |-> FALSE,
      enable_portability_subset |-> TRUE ]

\* PhysicalDeviceSelector::new
PhysicalDeviceSelector_new(inst) ==
    [ surface |-> inst.surface,
      criteria |-> [DefaultCriteria EXCEPT
                      !.require_present = (inst.surface # None),
                      !.required_version = inst.api_version,
                      !.enable_portability_subset = inst.portability] ]

\* ------------------------------------------------ suitability verdict
\* PhysicalDeviceSelector::set_is_suitable: the verdict it leaves in
\* device.suitable (which starts as Yes); drv is what the driver answers
\* for device.physical_device.
set_is_suitable(sel, device, drv) ==
    LET criteria == sel.criteria
        dedicated_compute ==
            get_dedicated_queue_index(device.queue_families, {"COMPUTE"}, {"TRANSFER"})
        dedicated_transfer ==
            get_dedicated_queue_index(device.queue_families, {"TRANSFER"}, {"COMPUTE"})
        separate_compute ==
            get_separate_queue_index(device.queue_families, {"COMPUTE"}, {"TRANSFER"})
        separate_transfer ==
            get_separate_queue_index(device.queue_families, {"TRANSFER"}, {"COMPUTE"})
        present_queue ==
            get_present_queue_index(drv.present_support, sel.surface,
                                    device.queue_families)
        required_extensions_supported ==
            check_device_extension_support(device.available_extensions,
                                           criteria.required_extensions)
        surface_unusable ==
            /\ ~criteria.defer_surface_initialization
            /\ criteria.require_present
            /\ sel.surface # None
            /\ \/ ~drv.surface_formats.ok
               \/ ~drv.surface_present_modes.ok
               \/ drv.surface_present_modes.len = 0
               \/ drv.surface_formats.len = 0
        preferred_device_type ==
            PreferredDeviceTypeRaw(criteria.preferred_device_type)
        after_type ==
            IF ~criteria.allow_any_type
               /\ device.properties.device_type # preferred_device_type
            THEN "Partial" ELSE device.suitable
        required_features_supported ==
            supports_features(device.features, criteria.required_features,
                              device.supported_features_chain,
                              criteria.requested_features_chain)
    IN  IF criteria.name # "" /\ criteria.name # device.properties.device_name
        THEN "No"
        ELSE IF criteria.required_version > device.properties.api_version
        THEN "No"
        ELSE IF criteria.require_dedicated_compute_queue /\ dedicated_compute = NoIndex
        THEN "No"
        ELSE IF criteria.require_dedicated_transfer_queue /\ dedicated_transfer = NoIndex
        THEN "No"
        ELSE IF criteria.require_separate_transfer_queue /\ separate_transfer = NoIndex
        THEN "No"
        ELSE IF criteria.require_separate_compute_queue /\ separate_compute = NoIndex
        THEN "No"
        ELSE IF /\ criteria.require_present
                /\ present_queue = NoIndex
                /\ ~criteria.defer_surface_initialization
        THEN "No"
        ELSE IF Cardinality(required_extensions_supported)
                    # Cardinality(criteria.required_extensions)
        THEN "No"
        ELSE IF surface_unusable
        THEN "No"
        ELSE IF ~required_features_supported
        THEN "No"
        ELSE IF \E h \in DOMAIN device.memory_properties.memory_heaps :
                    LET memory_heap == device.memory_properties.memory_heaps[h]
                    IN memory_heap.device_local
                       /\ memory_heap.size < criteria.required_mem_size
        THEN "No"
        ELSE after_type

\* what vkGetPhysicalDeviceFeatures2 writes into the chained nodes
QueriedFeatures(nodes, drv) ==
    [i \in DOMAIN nodes |->
        [s_type |-> nodes[i].s_type, fields |-> drv.features2[nodes[i].s_type]]]

\* the PhysicalDevice literal populate_device_details starts from
PhysicalDevice_described(inst, criteria, vk_phys_device, drv) ==
    [ name |-> drv.device_name,
      physical_device |-> vk_phys_device,
      surface |-> inst.surface,
      features |-> drv.features,
      properties |-> [device_name |-> drv.device_name,
                      api_version |-> drv.api_version,
                      device_type |-> drv.device_type],
      memory_properties |-> [memory_heaps |-> drv.memory_heaps],
      extensions_to_enable |-> {},
      available_extensions |-> {},
      queue_families |-> drv.queue_families,
      defer_surface_initialization |-> criteria.defer_surface_initialization,
      properties2_ext_enabled |-> inst.properties2_ext_enabled,
      suitable |-> "Yes",
      supported_features_chain |-> <<>>,
      requested_features_chain |-> criteria.requested_features_chain ]

\* populate_device_details keeping only the first node the driver filled in
populate_device_details_partial(inst, criteria, vk_phys_device, drv) ==
    LET physical_device == PhysicalDevice_described(inst, criteria, vk_phys_device, drv)
        requested_features_chain == criteria.requested_features_chain
    IN  IF ~drv.extensions.ok THEN physical_device
        ELSE IF requested_features_chain # <<>>
        THEN [physical_device EXCEPT
                !.available_extensions = drv.extensions.names,
                !.supported_features_chain = SubSeq(requested_features_chain, 1, 1)]
        ELSE [physical_device EXCEPT
                !.available_extensions = drv.extensions.names]

\* PhysicalDeviceSelector::populate_device_details
populate_device_details(inst, criteria, vk_phys_device, drv) ==
    LET physical_device == PhysicalDevice_described(inst, criteria, vk_phys_device, drv)
        requested_features_chain == criteria.requested_features_chain
        instance_is_11 == inst.instance_version >= V1_1_0
        \* the local copy the driver fills in; it is dropped at the end of
        \* the block
        supported_features == QueriedFeatures(requested_features_chain, drv)
    IN  IF ~drv.extensions.ok THEN physical_device
        ELSE IF requested_features_chain # <<>>
                /\ (instance_is_11 \/ inst.properties2_ext_enabled)
        THEN [physical_device EXCEPT
                !.available_extensions = drv.extensions.names,
                !.supported_features_chain = requested_features_chain]
        ELSE [physical_device EXCEPT
                !.available_extensions = drv.extensions.names]

\* ----------------------------------------------- the ordered device set
\* mutant: the order of the verdicts reversed
PhysicalDevice_cmp_reversed(a, b) ==
    IF SuitableRank(a.suitable) > SuitableRank(b.suitable) THEN "Less"
    ELSE IF SuitableRank(a.suitable) < SuitableRank(b.suitable) THEN "Greater"
    ELSE "Equal"

\* impl Ord for PhysicalDevice: by suitable alone
PhysicalDevice_cmp(a, b) ==
    IF SuitableRank(a.suitable) < SuitableRank(b.suitable) THEN "Less"
    ELSE IF SuitableRank(a.suitable) > SuitableRank(b.suitable) THEN "Greater"
    ELSE "Equal"

\* impl PartialEq for PhysicalDevice: name, handle and suitable
PhysicalDevice_eq(a, b) ==
    /\ a.name = b.name
    /\ a.physical_device = b.physical_device
    /\ a.suitable = b.suitable

\* a sort that puts x before the elements equal to it
RECURSIVE StableInsert_before_equals(_, _)
StableInsert_before_equals(sorted, x) ==
    IF sorted = <<>> THEN <<x>>
    ELSE IF PhysicalDevice_cmp(x, Head(sorted)) # "Greater"
         THEN <<x>> \o sorted
         ELSE <<Head(sorted)>> \o StableInsert_before_equals(Tail(sorted), x)

\* the stable sort of BTreeSet::from_iter: x goes after every element
\* that is not greater than it
RECURSIVE StableInsert(_, _)
StableInsert(sorted, x) ==
    IF sorted = <<>> THEN <<x>>
    ELSE IF PhysicalDevice_cmp(x, Head(sorted)) = "Less"
         THEN <<x>> \o sorted
         ELSE <<Head(sorted)>> \o StableInsert(Tail(sorted), x)

RECURSIVE StableSort(_)
StableSort(s) ==
    IF s = <<>> THEN <<>>
    ELSE StableInsert(StableSort(SubSeq(s, 1, Len(s) - 1)), s[Len(s)])

\* DedupSortedIter: of neighbours that are == the earlier one is dropped
RECURSIVE DedupSorted(_)
DedupSorted(s) ==
    IF Len(s) < 2 THEN s
    ELSE IF PhysicalDevice_eq(s[1], s[2]) THEN DedupSorted(Tail(s))
         ELSE <<s[1]>> \o DedupSorted(Tail(s))

\* collect::<BTreeSet<_>>() and BTreeSet::from([..]): the set in iteration order
BTreeSet_from_iter(s) == DedupSorted(StableSort(s))

\* ---------------------------------------------------------- selection
PortabilityName == "VK_KHR_portability_enumeration"

\* the closure fill_out_phys_dev_with_criteria
fill_out_phys_dev_with_criteria(criteria, physical_device) ==
    LET portability_ext_available ==
            \E ext \in physical_device.available_extensions :
                criteria.enable_portability_subset /\ ext = PortabilityName
    IN [physical_device EXCEPT
          !.features = criteria.required_features,
          !.extensions_to_enable =
              criteria.required_extensions
              \cup (IF portability_ext_available THEN {PortabilityName} ELSE {})]

\* the filter_map closure of select_devices for one enumerated handle:
\* the evaluated device, with suitable set
EvaluatedDevice(inst, sel, drv, p) ==
    LET phys_dev == populate_device_details(inst, sel.criteria, p, drv.devices[p])
    IN [phys_dev EXCEPT !.suitable = set_is_suitable(sel, phys_dev, drv.devices[p])]

RECURSIVE FilterMapDevices(_, _, _, _)
FilterMapDevices(inst, sel, drv, p) ==
    IF p > Len(drv.devices) THEN <<>>
    ELSE LET phys_dev == EvaluatedDevice(inst, sel, drv, p)
             rest == FilterMapDevices(inst, sel, drv, p + 1)
         IN IF phys_dev.suitable = "No" THEN rest
            ELSE <<fill_out_phys_dev_with_criteria(sel.criteria, phys_dev)>> \o rest

\* PhysicalDeviceSelector::select_devices; drv is [ok, devices] with the
\* driver's device records in enumeration order
select_devices(inst, sel, drv) ==
    LET criteria == sel.criteria
    IN  IF /\ criteria.require_present
           /\ ~criteria.defer_surface_initialization
           /\ inst.surface = None
        THEN [ok |-> FALSE, err |-> "NoSurfaceProvided", devices |-> <<>>]
        ELSE IF ~drv.ok
        THEN [ok |-> FALSE, err |-> "FailedToEnumeratePhysicalDevices", devices |-> <<>>]
        ELSE IF drv.devices = <<>>
        THEN [ok |-> FALSE, err |-> "NoPhysicalDevicesFound", devices |-> <<>>]
        ELSE IF criteria.use_first_gpu_unconditionally
        THEN LET device == populate_device_details(inst, criteria, 1, drv.devices[1])
             IN [ok |-> TRUE, err |-> None,
                 devices |-> BTreeSet_from_iter(
                     <<fill_out_phys_dev_with_criteria(criteria, device)>>)]
        ELSE [ok |-> TRUE, err |-> None,
              devices |-> BTreeSet_from_iter(FilterMapDevices(inst, sel, drv, 1))]

\* select evaluating the device the override hands it
select_evaluating_first(inst, sel, drv) ==
    LET devices == select_devices(inst, sel, drv)
    IN  IF ~devices.ok
        THEN [ok |-> FALSE, err |-> devices.err, device |-> NoDevice]
        ELSE IF devices.devices = <<>>
                \/ EvaluatedDevice(inst, sel, drv,
                                   devices.devices[1].physical_device).suitable = "No"
        THEN [ok |-> FALSE, err |-> "NoSuitableDevice", device |-> NoDevice]
        ELSE [ok |-> TRUE, err |-> None, device |-> devices.devices[1]]

\* select reporting an empty candidate set as an empty enumeration
select_one_error_kind(inst, sel, drv) ==
    LET devices == select_devices(inst, sel, drv)
    IN  IF ~devices.ok
        THEN [ok |-> FALSE, err |-> devices.err, device |-> NoDevice]
        ELSE IF devices.devices = <<>>
        THEN [ok |-> FALSE, err |-> "NoPhysicalDevicesFound", device |-> NoDevice]
        ELSE [ok |-> TRUE, err |-> None, device |-> devices.devices[1]]

\* PhysicalDeviceSelector::select
select(inst, sel, drv) ==
    LET devices == select_devices(inst, sel, drv)
    IN  IF ~devices.ok
        THEN [ok |-> FALSE, err |-> devices.err, device |-> NoDevice]
        ELSE IF devices.devices = <<>>
        THEN [ok |-> FALSE, err |-> "NoSuitableDevice", device |-> NoDevice]
        ELSE [ok |-> TRUE, err |-> None, device |-> devices.devices[1]]

\* the driver's records behind the enumerated handles
DriverRecords == [ok |-> driver.ok,
                  devices |-> [h \in DOMAIN driver.devices |-> DriverDevice(h)]]

\* ============================================================ swapchain
\* u32 values are modelled at a width of WordBits bits
WordBits == 3
U32_MAX == 2^WordBits - 1
U32 == 0..U32_MAX

PriorityRank(p) == IF p = "Main" THEN 0 ELSE 1

default_formats ==
    << [format |-> "B8G8R8A8_SRGB", color_space |-> "SRGB_NONLINEAR", priority |-> "Main"],
       [format |-> "R8G8B8_SRGB", color_space |-> "SRGB_NONLINEAR", priority |-> "Fallback"] >>

default_present_modes ==
    << [inner |-> "MAILBOX", priority |-> "Main"],
       [inner |-> "FIFO", priority |-> "Fallback"] >>

is_sorted_by_key(desired) ==
    \A i \in 1..(Len(desired) - 1) :
        PriorityRank(desired[i].priority) <= PriorityRank(desired[i + 1].priority)

\* the rearrangements of desired
Rearrangements(desired) ==
    {[i \in DOMAIN desired |-> desired[f[i]]] :
        f \in {g \in [DOMAIN desired -> DOMAIN desired] :
                 \A i, j \in DOMAIN desired : g[i] = g[j] => i = j}}

\* the orders the priority sort of find_desired_surface_format and of
\* find_present_mode may leave the entries in: a sorted list is not touched;
\* sort_unstable_by_key orders by priority and may reorder equal entries
sort_unstable_by_key(desired) ==
    IF is_sorted_by_key(desired) THEN {desired}
    ELSE {d \in Rearrangements(desired) : is_sorted_by_key(d)}

\* find_desired_surface_format, desired being the list after the sort
find_desired_surface_format(available, desired) ==
    LET Matches(d) == \E a \in DOMAIN available :
                          /\ d.format = available[a].format
                          /\ d.color_space = available[a].color_space
        at == Position(desired, Matches)
    IN IF at # NoIndex
       THEN [ok |-> TRUE,
             surface_format |-> [format |-> desired[at[1] + 1].format,
                                 color_space |-> desired[at[1] + 1].color_space]]
       ELSE [ok |-> FALSE,
             surface_format |-> [format |-> None, color_space |-> None]]

\* find_best_surface_format: unwrap_or(available[0]) indexes available
\* before it looks at the result
find_best_surface_format(available, desired) ==
    IF available = <<>>
    THEN [panic |-> TRUE, surface_format |-> [format |-> None, color_space |-> None]]
    ELSE LET found == find_desired_surface_format(available, desired)
         IN [panic |-> FALSE,
             surface_format |-> IF found.ok THEN found.surface_format ELSE available[1]]

\* find_present_mode taking the last supported desired mode, not the first
find_present_mode_last(available, desired) ==
    LET supported == {i \in DOMAIN desired :
                         \E a \in DOMAIN available : desired[i].inner = available[a]}
    IN IF supported # {}
       THEN desired[CHOOSE i \in supported : \A j \in supported : j <= i].inner
       ELSE "FIFO"

\* find_present_mode, desired being the list after the sort
find_present_mode(available, desired) ==
    LET Supported(d) == \E a \in DOMAIN available : d.inner = available[a]
        at == Position(desired, Supported)
    IN IF at # NoIndex THEN desired[at[1] + 1].inner ELSE "FIFO"

\* find_extent with its two cases exchanged
find_extent_exchanged(self, capabilities) ==
    IF capabilities.current_extent.width = U32_MAX
    THEN capabilities.current_extent
    ELSE [width |-> Max(capabilities.min_image_extent.width,
                        Min(capabilities.max_image_extent.width, self.desired_width)),
          height |-> Max(capabilities.min_image_extent.height,
                         Min(capabilities.max_image_extent.height, self.desired_height))]

\* SwapchainBuilder::find_extent
find_extent(self, capabilities) ==
    IF capabilities.current_extent.width # U32_MAX
    THEN capabilities.current_extent
    ELSE [width |-> Max(capabilities.min_image_extent.width,
                        Min(capabilities.max_image_extent.width, self.desired_width)),
          height |-> Max(capabilities.min_image_extent.height,
                         Min(capabilities.max_image_extent.height, self.desired_height))]

\* the image count of build before the clamp to the surface maximum:
\* [err, panic, image_count]; min_image_count + 1 overflows at U32_MAX, which
\* panics in a build with overflow checks and wraps in one without
requested_image_count(self, capabilities, overflow_checks) ==
    IF self.min_image_count >= 1
    THEN IF self.required_min_image_count < capabilities.min_image_count
         THEN [err |-> "RequiredMinImageCountTooLow", panic |-> FALSE, image_count |-> 0]
         ELSE [err |-> None, panic |-> FALSE,
               image_count |-> capabilities.min_image_count]
    ELSE IF capabilities.min_image_count + 1 > U32_MAX /\ overflow_checks
         THEN [err |-> None, panic |-> TRUE, image_count |-> 0]
         ELSE [err |-> None, panic |-> FALSE,
               image_count |-> (capabilities.min_image_count + 1) % (U32_MAX + 1)]

\* the clamp of the image count to a nonzero surface maximum
clamp_image_count(image_count, capabilities) ==
    IF capabilities.max_image_count > 0 /\ image_count > capabilities.max_image_count
    THEN capabilities.max_image_count
    ELSE image_count

UnextendedPresentModes == {"IMMEDIATE", "MAILBOX", "FIFO", "FIFO_RELAXED"}

\* the usage check of build applied to every present mode
usage_refused_for_all_modes(self, capabilities, present_mode) ==
    ~(self.image_usage_flags \subseteq capabilities.supported_usage_flags)

\* the usage check of build: TRUE when build returns RequiredUsageNotSupported
usage_refused(self, capabilities, present_mode) ==
    LET is_unextended_present_mode == present_mode \in UnextendedPresentModes
    IN /\ is_unextended_present_mode
       /\ ~(self.image_usage_flags \subseteq capabilities.supported_usage_flags)

\* sharing that is always exclusive
image_sharing_exclusive(self) ==
    [image_sharing_mode |-> "EXCLUSIVE", queue_family_indices |-> <<>>]

\* the sharing mode and index list build puts into the create info
image_sharing(self) ==
    IF self.graphics_queue_index # self.present_queue_index
    THEN [image_sharing_mode |-> "CONCURRENT",
          queue_family_indices |-> <<self.graphics_queue_index, self.present_queue_index>>]
    ELSE [image_sharing_mode |-> "EXCLUSIVE", queue_family_indices |-> <<>>]

NoCreateInfo ==
    [min_image_count |-> 0,
     surface_format |-> [format |-> None, color_space |-> None],
     image_extent |-> [width |-> 0, height |-> 0],
     image_array_layers |-> 0,
     image_usage |-> {},
     pre_transform |-> None,
     present_mode |-> None,
     old_swapchain |-> 0,
     image_sharing_mode |-> None,
     queue_family_indices |-> <<>>]

\* how a build ends: outcome is "Ok", "Err" or "Panic"; create_info is what
\* was handed to vkCreateSwapchainKHR when created is TRUE
BuildEnds(outcome, err, created, create_info, destroyed) ==
    [outcome |-> outcome, err |-> err, created |-> created,
     create_info |-> create_info, destroyed_old |-> destroyed]

NotBuilt == BuildEnds("None", None, FALSE, NoCreateInfo, FALSE)

\* SwapchainBuilder::build. support is the driver's answer to
\* query_surface_support_details, sorted_formats and sorted_modes the
\* desired lists as the priority sort leaves them, create_ok whether
\* vkCreateSwapchainKHR succeeds.
build(inst, self, support, overflow_checks, sorted_formats, sorted_modes, create_ok) ==
    LET capabilities == support.capabilities
        count == requested_image_count(self, capabilities, overflow_checks)
        image_count == clamp_image_count(count.image_count, capabilities)
        best == find_best_surface_format(support.formats, sorted_formats)
        extent == find_extent(self, capabilities)
        clamped_layers == IF capabilities.max_image_array_layers < self.array_layer_count
                          THEN capabilities.max_image_array_layers
                          ELSE self.array_layer_count
        image_array_layers == IF clamped_layers = 0 THEN 1 ELSE clamped_layers
        present_mode == find_present_mode(support.present_modes, sorted_modes)
        pre_transform == IF self.pre_transform = "default"
                         THEN capabilities.current_transform
                         ELSE self.pre_transform
        old_swapchain == self.old_swapchain
        sharing == image_sharing(self)
        create_info ==
            [min_image_count |-> image_count,
             surface_format |-> best.surface_format,
             image_extent |-> extent,
             image_array_layers |-> image_array_layers,
             image_usage |-> self.image_usage_flags,
             pre_transform |-> pre_transform,
             present_mode |-> present_mode,
             old_swapchain |-> old_swapchain,
             image_sharing_mode |-> sharing.image_sharing_mode,
             queue_family_indices |-> sharing.queue_family_indices]
    IN  IF inst.surface = None
        THEN BuildEnds("Err", "SurfaceHandleNotProvided", FALSE, NoCreateInfo, FALSE)
        ELSE IF ~support.ok
        THEN BuildEnds("Err", "Vulkan", FALSE, NoCreateInfo, FALSE)
        ELSE IF count.err # None
        THEN BuildEnds("Err", count.err, FALSE, NoCreateInfo, FALSE)
        ELSE IF count.panic
        THEN BuildEnds("Panic", "attempt to add with overflow", FALSE, NoCreateInfo, FALSE)
        ELSE IF best.panic
        THEN BuildEnds("Panic", "index out of bounds", FALSE, NoCreateInfo, FALSE)
        ELSE IF usage_refused(self, capabilities, present_mode)
        THEN BuildEnds("Err", "RequiredUsageNotSupported", FALSE, NoCreateInfo, FALSE)
        ELSE IF ~create_ok
        THEN BuildEnds("Err", "FailedCreateSwapchain", TRUE, create_info, FALSE)
        ELSE BuildEnds("Ok", None, TRUE, create_info, old_swapchain # 0)

\* ------------------------------------------------ what has not started
NoReturn == [op |-> "None"]
NotCreated == [outcome |-> "None"]
NoFetch == [op |-> "None"]
Threads == {1, 2}
Idle == [at |-> "idle"]

\* no DeviceBuilder yet, and no call on the selected device
DeviceIdle ==
    /\ returned = NoReturn
    /\ physical = NoDevice
    /\ created_device = NotCreated
    /\ fetched = NoFetch

\* a swapchain without image views, and no thread in one of its methods
ViewsIdle ==
    /\ image_views = <<>>
    /\ threads = [t \in Threads |-> Idle]
    /\ views_created = 0
    /\ views_destroyed = <<>>

\* ------------------------------------------------ the selector's life
BasicFeatures == {"geometry_shader", "sampler_anisotropy"}
FeatureNodes == UNION {[s_type : {t}, fields : SUBSET FeatureFields(t)] : t \in FeatureTypes}
ExtensionNames == {"extA", "extB"}
DeviceNames == {"gpuB"}

Bit(b) == IF b THEN 1 ELSE 0

\* how many requirements a selector carries beyond PhysicalDeviceSelector::new
Requirements(sel) ==
    LET c == sel.criteria
        NodeSize(n) == 1 + Cardinality(n.fields)
    IN  Bit(c.name # "") + Bit(c.preferred_device_type # "Discrete")
        + Bit(~c.allow_any_type)
        + Bit(c.require_dedicated_transfer_queue)
        + Bit(c.require_dedicated_compute_queue)
        + Bit(c.require_separate_transfer_queue)
        + Bit(c.require_separate_compute_queue)
        + Bit(c.required_mem_size # 0)
        + Cardinality(c.required_extensions)
        + Cardinality(c.required_features)
        + SumSeq([i \in DOMAIN c.requested_features_chain |->
                    NodeSize(c.requested_features_chain[i])])
        + Bit(c.use_first_gpu_unconditionally)
        + Bit(sel.surface # instance.surface)

\* a builder call that turns the selector into new
Configure(new) ==
    /\ pc = "configuring"
    /\ Requirements(new) <= MaxRequirements
    /\ selector' = new
    /\ UNCHANGED <<instance, driver, pc, selected, added, swapchain_vars, device_vars, view_vars>>

SetCriteria(c) == [selector EXCEPT !.criteria = c]
SetCriteria_of(sel, c) == [sel EXCEPT !.criteria = c]

surface ==
    Configure([selector EXCEPT !.surface = "surface"])

\* the selector after add_required_extension_feature(feature)
with_required_extension_feature(sel, feature) ==
    [sel EXCEPT !.criteria.requested_features_chain = GenericFeatureChain_add(@, feature)]

add_required_extension_feature ==
    \E feature \in FeatureNodes :
        Configure(with_required_extension_feature(selector, feature))

\* add_required_extension_feature with the node recorded, up to MaxAdds calls
add_required_extension_feature_recorded ==
    \E feature \in FeatureNodes :
        /\ pc = "configuring"
        /\ Len(added) < MaxAdds
        /\ selector' = with_required_extension_feature(selector, feature)
        /\ added' = Append(added, feature)
        /\ UNCHANGED <<instance, driver, pc, selected, swapchain_vars, device_vars, view_vars>>

add_required_features ==
    \E features \in (SUBSET BasicFeatures) \ {{}} :
        Configure(SetCriteria([selector.criteria EXCEPT !.required_features = features]))

\* the requirement set's extension names (the spec's RequirementSet)
add_required_extension ==
    \E extension \in ExtensionNames :
        Configure(SetCriteria([selector.criteria EXCEPT
            !.required_extensions = @ \cup {extension}]))

name ==
    \E n \in DeviceNames :
        Configure(SetCriteria([selector.criteria EXCEPT !.name = n]))

preferred_device_type ==
    \E device_type \in {"Integrated"} :
        Configure(SetCriteria([selector.criteria EXCEPT
            !.preferred_device_type = device_type]))

allow_any_gpu_device_type ==
    \E allow \in {FALSE} :
        Configure(SetCriteria([selector.criteria EXCEPT !.allow_any_type = allow]))

require_dedicated_transfer_queue ==
    \E require \in {TRUE} :
        Configure(SetCriteria([selector.criteria EXCEPT
            !.require_dedicated_transfer_queue = require]))

require_dedicated_compute_queue ==
    \E require \in {TRUE} :
        Configure(SetCriteria([selector.criteria EXCEPT
            !.require_dedicated_compute_queue = require]))

require_separate_transfer_queue ==
    \E require \in {TRUE} :
        Configure(SetCriteria([selector.criteria EXCEPT
            !.require_separate_transfer_queue = require]))

require_separate_compute_queue ==
    \E require \in {TRUE} :
        Configure(SetCriteria([selector.criteria EXCEPT
            !.require_separate_compute_queue = require]))

required_device_memory_size ==
    \E required \in {3} :
        Configure(SetCriteria([selector.criteria EXCEPT !.required_mem_size = required]))

select_first_device_unconditionally ==
    \E sel \in {TRUE} :
        Configure(SetCriteria([selector.criteria EXCEPT
            !.use_first_gpu_unconditionally = sel]))

\* PhysicalDeviceSelector::select consumes the selector
Select ==
    /\ pc = "configuring"
    /\ pc' = "selected"
    /\ selected' = select(instance, selector, DriverRecords)
    /\ UNCHANGED <<instance, driver, selector, added, swapchain_vars, device_vars, view_vars>>

\* ------------------------------------ extensions of the selected device
\* the longest batch handed to enable_extensions_if_present
MaxBatch == 2
RequestableExtensions == ExtensionNames \cup {"extC"}
Batches == UNION {[1..n -> RequestableExtensions] : n \in 0..MaxBatch}

\* PhysicalDevice::enable_extension_if_present: the device and the result;
\* BTreeSet::insert is false for a name that is already in the set
enable_extension_if_present_on(self, extension) ==
    IF extension \in self.available_extensions
    THEN [self |-> [self EXCEPT !.extensions_to_enable = @ \cup {extension}],
          value |-> extension \notin self.extensions_to_enable]
    ELSE [self |-> self, value |-> FALSE]

\* enable_extensions_if_present adding what it can of a batch
enable_extensions_if_present_partly(self, batch) ==
    LET extensions == {batch[i] : i \in DOMAIN batch}
        intersection == self.available_extensions \cap extensions
    IN  [self |-> [self EXCEPT !.extensions_to_enable = @ \cup intersection],
         value |-> Cardinality(intersection) = Cardinality(extensions)]

\* PhysicalDevice::enable_extensions_if_present: the batch is collected into
\* a BTreeSet first
enable_extensions_if_present_on(self, batch) ==
    LET extensions == {batch[i] : i \in DOMAIN batch}
        intersection == self.available_extensions \cap extensions
    IN  IF Cardinality(intersection) = Cardinality(extensions)
        THEN [self |-> [self EXCEPT !.extensions_to_enable = @ \cup intersection],
              value |-> TRUE]
        ELSE [self |-> self, value |-> FALSE]

\* a call on the device select returned
CallOnSelected(op, input, result) ==
    /\ pc = "selected"
    /\ selected.ok
    /\ selected' = [selected EXCEPT !.device = result.self]
    /\ returned' = [op |-> op, input |-> input, value |-> result.value,
                    before |-> selected.device.extensions_to_enable]
    /\ UNCHANGED <<instance, driver, selector, pc, added, swapchain_vars,
                   physical, created_device, fetched, view_vars>>

enable_extension_if_present ==
    \E extension \in RequestableExtensions :
        CallOnSelected("enable_extension_if_present", <<extension>>,
                       enable_extension_if_present_on(selected.device, extension))

enable_extensions_if_present ==
    \E batch \in Batches :
        CallOnSelected("enable_extensions_if_present", batch,
                       enable_extensions_if_present_on(selected.device, batch))

\* ------------------------------------------- the swapchain builder's life
MaxDesired == 3
MaxFormats == 2
MaxModes == 2

\* SwapchainBuilder::new; the default size of 256 saturates at the modelled width
SwapchainBuilder_new(graphics, present) ==
    [graphics_queue_index |-> graphics,
     present_queue_index |-> present,
     desired_formats |-> <<>>,
     desired_width |-> Min(256, U32_MAX),
     desired_height |-> Min(256, U32_MAX),
     array_layer_count |-> 1,
     min_image_count |-> 0,
     required_min_image_count |-> 0,
     image_usage_flags |-> {"COLOR_ATTACHMENT"},
     desired_present_modes |-> <<>>,
     pre_transform |-> "default",
     old_swapchain |-> 0]

\* what the surface of an ordinary driver reports
DefaultCapabilities ==
    [min_image_count |-> 2,
     max_image_count |-> 4,
     current_extent |-> [width |-> 2, height |-> 2],
     min_image_extent |-> [width |-> 1, height |-> 1],
     max_image_extent |-> [width |-> U32_MAX - 1, height |-> U32_MAX - 1],
     max_image_array_layers |-> 1,
     supported_usage_flags |-> {"COLOR_ATTACHMENT", "TRANSFER_DST"},
     current_transform |-> "IDENTITY"]

DefaultSupport ==
    [ok |-> TRUE,
     capabilities |-> DefaultCapabilities,
     formats |-> << [format |-> "B8G8R8A8_SRGB", color_space |-> "SRGB_NONLINEAR"] >>,
     present_modes |-> <<"FIFO">>]

\* query_surface_support_details fails when one of its three queries does
FailedQuery == [DefaultSupport EXCEPT !.ok = FALSE]

SurfaceFormats ==
    { [format |-> "B8G8R8A8_SRGB", color_space |-> "SRGB_NONLINEAR"],
      [format |-> "R8G8B8_SRGB", color_space |-> "SRGB_NONLINEAR"],
      [format |-> "B8G8R8A8_SRGB", color_space |-> "EXTENDED_SRGB_LINEAR_EXT"] }

\* the image counts a surface reports: at least one image, and a maximum
\* that is 0 (no limit) or not below the minimum
ImageCountSupports ==
    {[DefaultSupport EXCEPT !.capabilities.min_image_count = lo,
                            !.capabilities.max_image_count = hi] :
        lo \in 1..U32_MAX, hi \in U32}

ValidImageCounts(support) ==
    \/ support.capabilities.max_image_count = 0
    \/ support.capabilities.max_image_count >= support.capabilities.min_image_count

\* the extents a surface reports: min <= max in the width, and a current
\* extent that is the minimum, the maximum or the sentinel (U32_MAX, U32_MAX)
ExtentSupports ==
    UNION {
      {[DefaultSupport EXCEPT !.capabilities.min_image_extent = [width |-> lo, height |-> 1],
                              !.capabilities.max_image_extent = [width |-> hi, height |-> U32_MAX - 1],
                              !.capabilities.current_extent = cur] :
         cur \in {[width |-> lo, height |-> 1],
                  [width |-> hi, height |-> U32_MAX - 1],
                  [width |-> U32_MAX, height |-> U32_MAX]}} :
      lo \in U32, hi \in U32}

ValidExtents(support) ==
    support.capabilities.min_image_extent.width
        <= support.capabilities.max_image_extent.width

\* the present modes of the model: the four of core Vulkan and one of an
\* extension
PresentModes ==
    UnextendedPresentModes \cup {"SHARED_DEMAND_REFRESH"}

\* the present-mode lists a surface reports
PresentSupports ==
    {[DefaultSupport EXCEPT !.present_modes = ms] :
        ms \in UNION {[1..n -> PresentModes] : n \in 0..MaxModes}}

\* the format lists a surface reports
FormatSupports ==
    {[DefaultSupport EXCEPT !.formats = fs] :
        fs \in UNION {[1..n -> SurfaceFormats] : n \in 0..MaxFormats}}

\* a builder method takes the builder by value and hands it back changed
Chain(new) ==
    /\ built.outcome = "None"
    /\ builder' = new
    /\ UNCHANGED <<selection_vars, surface_support, built, calls, device_vars, view_vars>>

desired_format ==
    \E format \in SurfaceFormats :
        /\ Len(builder.desired_formats) < MaxDesired
        /\ Chain([builder EXCEPT !.desired_formats =
                     Append(@, [format |-> format.format,
                                color_space |-> format.color_space,
                                priority |-> "Main"])])

fallback_format ==
    \E format \in SurfaceFormats :
        /\ Len(builder.desired_formats) < MaxDesired
        /\ Chain([builder EXCEPT !.desired_formats =
                     Append(@, [format |-> format.format,
                                color_space |-> format.color_space,
                                priority |-> "Fallback"])])

use_default_format_selection ==
    Chain([builder EXCEPT !.desired_formats = default_formats])

desired_size ==
    \E width \in U32, height \in {0, 2, U32_MAX} :
        Chain([builder EXCEPT !.desired_width = width, !.desired_height = height])

desired_min_image_count ==
    \E min_image_count \in U32 :
        Chain([builder EXCEPT !.min_image_count = min_image_count])

\* one call to the driver about a swapchain handle
Call(call, handle) == [call |-> call, handle |-> handle]

image_usage_flags ==
    \E flags \in {{"TRANSFER_DST"}, {"COLOR_ATTACHMENT", "STORAGE"}} :
        Chain([builder EXCEPT !.image_usage_flags = flags])

add_image_usage_flags ==
    \E flags \in {{"TRANSFER_DST"}} :
        Chain([builder EXCEPT !.image_usage_flags = @ \cup flags])

\* the handles of the swapchains built earlier that the caller still holds
OldSwapchains == {1, 2}

\* SwapchainBuilder::set_old_swapchain takes the Swapchain by value, so one
\* swapchain is handed over at most once; its image views go first
SetOldSwapchain(swapchain) ==
    /\ \A i \in DOMAIN calls : calls[i].handle # swapchain
    /\ calls' = Append(calls, Call("destroy_image_views", swapchain))
    /\ builder' = [builder EXCEPT !.old_swapchain = swapchain]
    /\ UNCHANGED <<selection_vars, surface_support, built, device_vars, view_vars>>

set_old_swapchain ==
    \E swapchain \in OldSwapchains :
        /\ built.outcome = "None"
        /\ SetOldSwapchain(swapchain)

\* set_old_swapchain(&self) on a builder that has built already
set_old_swapchain_after_build ==
    \E swapchain \in OldSwapchains :
        /\ built.outcome \in {"Ok", "Err"}
        /\ SetOldSwapchain(swapchain)

desired_present_mode ==
    \E present_mode \in PresentModes :
        /\ Len(builder.desired_present_modes) < MaxModes
        /\ Chain([builder EXCEPT !.desired_present_modes =
                     Append(@, [inner |-> present_mode, priority |-> "Main"])])

fallback_present_mode ==
    \E present_mode \in {"IMMEDIATE", "FIFO_RELAXED"} :
        /\ Len(builder.desired_present_modes) < MaxModes
        /\ Chain([builder EXCEPT !.desired_present_modes =
                     Append(@, [inner |-> present_mode, priority |-> "Fallback"])])

use_default_present_modes ==
    Chain([builder EXCEPT !.desired_present_modes = default_present_modes])

\* the lists build searches: the caller's, or the defaults when it has none
desired_formats_or_default(self) ==
    IF self.desired_formats = <<>> THEN default_formats ELSE self.desired_formats

desired_present_modes_or_default(self) ==
    IF self.desired_present_modes = <<>> THEN default_present_modes
    ELSE self.desired_present_modes

\* driver calls of a build that destroys the old handle whenever there is one
build_calls_destroying_always(self, ends) ==
    (IF ends.created
     THEN <<Call("create_swapchain", ends.create_info.old_swapchain)>> ELSE <<>>)
    \o (IF self.old_swapchain # 0
        THEN <<Call("destroy_swapchain", self.old_swapchain)>> ELSE <<>>)

\* the driver calls of one build, from how it ended: create_swapchain with
\* the old handle, then destroy_swapchain of a nonzero old handle
build_calls(self, ends) ==
    (IF ends.created
     THEN <<Call("create_swapchain", ends.create_info.old_swapchain)>> ELSE <<>>)
    \o (IF ends.destroyed_old
        THEN <<Call("destroy_swapchain", self.old_swapchain)>> ELSE <<>>)

\* the most driver calls a builder's life is followed for
MaxCalls == 6

\* SwapchainBuilder::build(&self)
BuildStep ==
    /\ \E overflow_checks \in BOOLEAN, create_ok \in BOOLEAN :
       \E sorted_formats \in sort_unstable_by_key(desired_formats_or_default(builder)),
          sorted_modes \in sort_unstable_by_key(desired_present_modes_or_default(builder)) :
            built' = build(instance, builder, surface_support, overflow_checks,
                           sorted_formats, sorted_modes, create_ok)
    /\ calls' = calls \o build_calls(builder, built')
    /\ UNCHANGED <<selection_vars, builder, surface_support, device_vars, view_vars>>

\* the first build of a builder
Build ==
    /\ built.outcome = "None"
    /\ BuildStep

\* build(&self) leaves the builder in place: a later build of the same builder
Build_again ==
    /\ built.outcome \in {"Ok", "Err"}
    /\ Len(calls) < MaxCalls
    /\ BuildStep

\* ------------------------------------------ the swapchain's image views
\* the images of the swapchain, and the most views the driver hands out
ImageCount == 2
MaxViews == 6

\* the views a get_image_views call creates after the first made views
NewViews(made, count) == [i \in 1..count |-> made + i]

ViewStep(t, at) ==
    /\ threads' = [threads EXCEPT ![t] = at]
    /\ UNCHANGED <<selection_vars, swapchain_vars, device_vars>>

\* Swapchain::get_image_views up to the lock: get_images, then one
\* create_image_view per image, collected into a Result; the first failure
\* ends the call with the Err, and the views made before it are dropped
\* from the iterator without a destroy call
get_image_views_create(t) ==
    /\ threads[t] = Idle
    /\ views_created + ImageCount <= MaxViews
    /\ \E made \in 0..ImageCount :
           /\ views_created' = views_created + made
           /\ IF made = ImageCount
              THEN ViewStep(t, [at |-> "lock", views |-> NewViews(views_created, made)])
              ELSE ViewStep(t, Idle)
    /\ UNCHANGED <<image_views, views_destroyed>>

\* get_image_views inside the lock: the list is replaced by the new views
get_image_views_store(t) ==
    /\ threads[t] # Idle
    /\ threads[t].at = "lock"
    /\ image_views' = threads[t].views
    /\ ViewStep(t, Idle)
    /\ UNCHANGED <<views_created, views_destroyed>>

\* Swapchain::destroy_image_views: the list is drained inside the lock and
\* every drained view is destroyed
destroy_image_views(t) ==
    /\ threads[t] = Idle
    /\ views_destroyed' = views_destroyed \o image_views
    /\ image_views' = <<>>
    /\ ViewStep(t, Idle)
    /\ UNCHANGED views_created

\* Device::get_queue: the family index, NoIndex for the Err
Device_get_queue(surface_handle, physical_device, queue) ==
    CASE queue = "Present" ->
             get_present_queue_index(physical_device.present_support, surface_handle,
                                     physical_device.queue_families)
      [] queue = "Graphics" ->
             get_first_queue_index(physical_device.queue_families, {"GRAPHICS"})
      [] queue = "Compute" ->
             get_separate_queue_index(physical_device.queue_families,
                                      {"COMPUTE"}, {"TRANSFER"})
      [] queue = "Transfer" ->
             get_separate_queue_index(physical_device.queue_families,
                                      {"TRANSFER"}, {"COMPUTE"})

\* ------------------------------------------------- the logical device
\* the largest queue family table
MaxFamilies == 3
SwapchainName == "VK_KHR_swapchain"
QueueFlagSets == (SUBSET {"GRAPHICS", "COMPUTE", "TRANSFER"}) \ {{}}
FamilyTables == UNION {[1..n -> QueueFlagSets] : n \in 1..MaxFamilies}

\* the driver's answers for a device with this family table, of which the
\* family numbered present_family (0: none) can present to the surface
TableDevice(families, present_family) ==
    [BaseDevice EXCEPT
        !.queue_families = families,
        !.present_support = [i \in DOMAIN families |->
                                IF i = present_family THEN "true" ELSE "false"]]

\* the pNext node that carries the basic features
Features2(features) == [s_type |-> "Features2", fields |-> features]

\* DeviceBuilder::build creating no queue for the last family
DeviceBuilder_build_without_last_queue(inst, physical_device, create_ok) ==
    LET queue_create_infos ==
            [i \in 1..(Len(physical_device.queue_families) - 1) |->
                [queue_family_index |-> i - 1, queue_count |-> 1,
                 queue_priorities |-> <<1>>]]
    IN  IF ~create_ok THEN [outcome |-> "Err", err |-> "VkError"]
        ELSE [outcome |-> "Ok",
              surface |-> physical_device.surface,
              physical_device |-> physical_device,
              create_info |->
                  [queue_create_infos |-> queue_create_infos,
                   enabled_extension_names |-> physical_device.extensions_to_enable,
                   p_enabled_features |-> {},
                   p_next |-> <<>>]]

\* DeviceBuilder::build: one queue of priority 1.0 per family; the basic
\* features travel in the Features2 node, which is chained, with the
\* requested nodes, only under 1.1 or properties2; enabled_features is
\* never called, so pEnabledFeatures stays null (no flag set)
DeviceBuilder_build(inst, physical_device, create_ok) ==
    LET queue_descriptions ==
            [i \in DOMAIN physical_device.queue_families |->
                [index |-> i - 1, priorities |-> <<1>>]]
        queue_create_infos ==
            [i \in DOMAIN queue_descriptions |->
                [queue_family_index |-> queue_descriptions[i].index,
                 queue_count |-> Len(queue_descriptions[i].priorities),
                 queue_priorities |-> queue_descriptions[i].priorities]]
        extensions_to_enable ==
            IF physical_device.surface # None
               \/ physical_device.defer_surface_initialization
            THEN physical_device.extensions_to_enable \cup {SwapchainName}
            ELSE physical_device.extensions_to_enable
        features2 == Features2(physical_device.features)
        p_next ==
            IF inst.instance_version >= V1_1_0
               \/ physical_device.properties2_ext_enabled
            THEN <<features2>> \o physical_device.requested_features_chain
            ELSE <<>>
    IN  IF ~create_ok THEN [outcome |-> "Err", err |-> "VkError"]
        ELSE [outcome |-> "Ok",
              surface |-> physical_device.surface,
              physical_device |->
                  [physical_device EXCEPT !.extensions_to_enable = extensions_to_enable],
              create_info |->
                  [queue_create_infos |-> queue_create_infos,
                   enabled_extension_names |-> extensions_to_enable,
                   p_enabled_features |-> {},
                   p_next |-> p_next]]

\* the queue types of QueueType
QueueTypes == {"Present", "Graphics", "Compute", "Transfer"}

\* the error Device::get_queue and get_dedicated_queue give for a missing family
Unavailable(queue) ==
    CASE queue = "Present" -> "PresentUnavailable"
      [] queue = "Graphics" -> "GraphicsUnavailable"
      [] queue = "Compute" -> "ComputeUnavailable"
      [] queue = "Transfer" -> "TransferUnavailable"

\* vkGetDeviceQueue(index, 0) names a queue the device was created with
QueueExists(dev, index) ==
    \E i \in DOMAIN dev.create_info.queue_create_infos :
        /\ dev.create_info.queue_create_infos[i].queue_family_index = index
        /\ dev.create_info.queue_create_infos[i].queue_count > 0

\* the result of a lookup that ended with the Option index
Fetch(op, queue, dev, index) ==
    IF index = NoIndex
    THEN [op |-> op, queue |-> queue, ok |-> FALSE, err |-> Unavailable(queue),
          index |-> NoIndex, fetches |-> FALSE, exists |-> FALSE]
    ELSE [op |-> op, queue |-> queue, ok |-> TRUE, err |-> None,
          index |-> index, fetches |-> TRUE, exists |-> QueueExists(dev, index[1])]

\* Device::get_dedicated_queue: the family index for Compute and Transfer
Device_get_dedicated_queue(physical_device, queue) ==
    CASE queue = "Compute" ->
             get_dedicated_queue_index(physical_device.queue_families,
                                       {"COMPUTE"}, {"TRANSFER"})
      [] queue = "Transfer" ->
             get_dedicated_queue_index(physical_device.queue_families,
                                       {"TRANSFER"}, {"COMPUTE"})

\* the actions on a DeviceBuilder and the Device it builds
DeviceStep ==
    UNCHANGED <<selection_vars, swapchain_vars, returned, physical, view_vars>>

Build_device ==
    /\ physical # NoDevice
    /\ created_device = NotCreated
    /\ \E create_ok \in BOOLEAN :
           created_device' = DeviceBuilder_build(instance, physical.device, create_ok)
    /\ UNCHANGED fetched
    /\ DeviceStep

get_queue ==
    /\ created_device # NotCreated
    /\ created_device.outcome = "Ok"
    /\ \E queue \in QueueTypes :
           fetched' = Fetch("get_queue", queue, created_device,
                            Device_get_queue(created_device.surface,
                                [present_support |-> physical.present_support,
                                 queue_families |->
                                     created_device.physical_device.queue_families],
                                queue))
    /\ UNCHANGED created_device
    /\ DeviceStep

get_dedicated_queue ==
    /\ created_device # NotCreated
    /\ created_device.outcome = "Ok"
    /\ \E queue \in QueueTypes :
           fetched' =
               IF queue \in {"Compute", "Transfer"}
               THEN Fetch("get_dedicated_queue", queue, created_device,
                          Device_get_dedicated_queue(created_device.physical_device, queue))
               ELSE [op |-> "get_dedicated_queue", queue |-> queue, ok |-> FALSE,
                     err |-> "InvalidQueueFamilyIndex", index |-> NoIndex,
                     fetches |-> FALSE, exists |-> FALSE]
    /\ UNCHANGED created_device
    /\ DeviceStep

\* the device the swapchain specifications build on: selected, with the
\* graphics and present queues in family 0
SelectedForSwapchain ==
    /\ instance = [surface |-> "surface", instance_version |-> 2, api_version |-> 2,
                   properties2_ext_enabled |-> FALSE, portability |-> FALSE]
    /\ driver = [ok |-> TRUE, devices |-> <<"base">>]
    /\ selector = PhysicalDeviceSelector_new(instance)
    /\ pc = "selected"
    /\ selected = select(instance, selector, DriverRecords)
    /\ added = <<>>
    /\ builder = SwapchainBuilder_new(0, 0)
    /\ built = NotBuilt
    /\ calls = <<>>
    /\ DeviceIdle
    /\ ViewsIdle

Init ==
    /\ instance \in Instances
    /\ driver \in Drivers
    /\ selector = PhysicalDeviceSelector_new(instance)
    /\ pc = "configuring"
    /\ selected = [ok |-> FALSE, err |-> None, device |-> NoDevice]
    /\ added = <<>>
    /\ builder = SwapchainBuilder_new(0, 0)
    /\ surface_support = DefaultSupport
    /\ built = NotBuilt
    /\ calls = <<>>
    /\ DeviceIdle
    /\ ViewsIdle

Next ==
    \/ surface
    \/ add_required_extension_feature
    \/ add_required_features
    \/ add_required_extension
    \/ name
    \/ preferred_device_type
    \/ allow_any_gpu_device_type
    \/ require_dedicated_transfer_queue
    \/ require_dedicated_compute_queue
    \/ require_separate_transfer_queue
    \/ require_separate_compute_queue
    \/ required_device_memory_size
    \/ select_first_device_unconditionally
    \/ Select

Spec == Init /\ [][Next]_vars

InitImageCount ==
    /\ SelectedForSwapchain
    /\ surface_support \in {s \in ImageCountSupports : ValidImageCounts(s)} \cup {FailedQuery}

NextImageCount ==
    \/ desired_min_image_count
    \/ Build

SpecImageCount == InitImageCount /\ [][NextImageCount]_vars

InitExtent ==
    /\ SelectedForSwapchain
    /\ surface_support \in {s \in ExtentSupports : ValidExtents(s)} \cup {FailedQuery}

NextExtent ==
    \/ desired_size
    \/ Build

SpecExtent == InitExtent /\ [][NextExtent]_vars

InitFormat ==
    /\ SelectedForSwapchain
    /\ surface_support \in FormatSupports \cup {FailedQuery}

NextFormat ==
    \/ desired_format
    \/ fallback_format
    \/ use_default_format_selection
    \/ Build

SpecFormat == InitFormat /\ [][NextFormat]_vars

InitPresent ==
    /\ SelectedForSwapchain
    /\ surface_support \in PresentSupports \cup {FailedQuery}

NextPresent ==
    \/ desired_present_mode
    \/ fallback_present_mode
    \/ use_default_present_modes
    \/ Build

SpecPresent == InitPresent /\ [][NextPresent]_vars

\* the devices the swapchain is created on: presentation on family 0, 1 or 2
SwapchainProfiles == {"base", "integrated", "present2"}

\* the surfaces creation is checked on: at most one present mode, and usage
\* flags with or without TRANSFER_DST
CreateSupports ==
    {[DefaultSupport EXCEPT !.present_modes = ms,
                            !.capabilities.supported_usage_flags = usage] :
        ms \in {<<>>} \cup {<<m>> : m \in PresentModes},
        usage \in {{"COLOR_ATTACHMENT"}, {"COLOR_ATTACHMENT", "TRANSFER_DST"}}}

InitCreate ==
    /\ instance = [surface |-> "surface", instance_version |-> 2, api_version |-> 2,
                   properties2_ext_enabled |-> FALSE, portability |-> FALSE]
    /\ driver \in {[ok |-> TRUE, devices |-> <<p>>] : p \in SwapchainProfiles}
    /\ selector = PhysicalDeviceSelector_new(instance)
    /\ pc = "selected"
    /\ selected = select(instance, selector, DriverRecords)
    /\ added = <<>>
    /\ builder = SwapchainBuilder_new(
                     Device_get_queue(instance.surface, DriverDevice(1), "Graphics")[1],
                     Device_get_queue(instance.surface, DriverDevice(1), "Present")[1])
    /\ surface_support \in CreateSupports \cup {FailedQuery}
    /\ built = NotBuilt
    /\ calls = <<>>
    /\ DeviceIdle
    /\ ViewsIdle

NextCreate ==
    \/ desired_present_mode
    \/ image_usage_flags
    \/ add_image_usage_flags
    \/ set_old_swapchain
    \/ Build

SpecCreate == InitCreate /\ [][NextCreate]_vars

\* one builder over its whole life: predecessors set and builds repeated
InitRebuild ==
    /\ SelectedForSwapchain
    /\ surface_support \in {DefaultSupport, FailedQuery}

NextRebuild ==
    \/ set_old_swapchain
    \/ set_old_swapchain_after_build
    \/ Build
    \/ Build_again

SpecRebuild == InitRebuild /\ [][NextRebuild]_vars

\* a Swapchain as a successful build leaves it, shared by the threads
InitViews ==
    /\ instance = [surface |-> "surface", instance_version |-> 2, api_version |-> 2,
                   properties2_ext_enabled |-> FALSE, portability |-> FALSE]
    /\ driver = [ok |-> TRUE, devices |-> <<"base">>]
    /\ selector = PhysicalDeviceSelector_new(instance)
    /\ pc = "selected"
    /\ selected = select(instance, selector, DriverRecords)
    /\ added = <<>>
    /\ builder = SwapchainBuilder_new(0, 0)
    /\ surface_support = DefaultSupport
    /\ built = build(instance, builder, surface_support, FALSE,
                     default_formats, default_present_modes, TRUE)
    /\ calls = build_calls(builder, built)
    /\ DeviceIdle
    /\ ViewsIdle

NextViews ==
    \E t \in Threads :
        \/ get_image_views_create(t)
        \/ get_image_views_store(t)
        \/ destroy_image_views(t)

SpecViews == InitViews /\ [][NextViews]_vars

\* a selector on which only the requested feature chain is built up
InitChain ==
    /\ instance \in Instances
    /\ driver = [ok |-> TRUE, devices |-> <<"base">>]
    /\ selector = PhysicalDeviceSelector_new(instance)
    /\ pc = "configuring"
    /\ selected = [ok |-> FALSE, err |-> None, device |-> NoDevice]
    /\ added = <<>>
    /\ builder = SwapchainBuilder_new(0, 0)
    /\ surface_support = DefaultSupport
    /\ built = NotBuilt
    /\ calls = <<>>
    /\ DeviceIdle
    /\ ViewsIdle

NextChain ==
    \/ add_required_extension_feature_recorded
    \/ Select

SpecChain == InitChain /\ [][NextChain]_vars

\* the selector's life over a driver with one device: set_is_suitable looks
\* at one candidate at a time
InitSuitability ==
    /\ Init
    /\ driver \in {[ok |-> TRUE, devices |-> <<p>>] : p \in Profiles}

SpecSuitability == InitSuitability /\ [][Next]_vars

\* selection with required extensions, then calls on the returned device
NextExtensions ==
    \/ add_required_extension
    \/ Select
    \/ enable_extension_if_present
    \/ enable_extensions_if_present

SpecExtensions == Init /\ [][NextExtensions]_vars

\* what a selector asks of the device handed to DeviceBuilder::new
DeviceRequests ==
    {[required_features |-> {}, requested_features_chain |-> <<>>],
     [required_features |-> {"geometry_shader"}, requested_features_chain |-> <<>>],
     [required_features |-> {"geometry_shader"},
      requested_features_chain |-> <<[s_type |-> "Vulkan11", fields |-> {"multiview"}]>>]}

\* a DeviceBuilder over the device select returns, taken unconditionally,
\* for the driver's records drv of one device
DeviceBuilderOver(drv, request) ==
    /\ selector = SetCriteria_of(PhysicalDeviceSelector_new(instance),
           [PhysicalDeviceSelector_new(instance).criteria EXCEPT
               !.required_features = request.required_features,
               !.requested_features_chain = request.requested_features_chain,
               !.use_first_gpu_unconditionally = TRUE])
    /\ pc = "selected"
    /\ selected = select(instance, selector, drv)
    /\ physical = [device |-> selected.device,
                   present_support |-> drv.devices[1].present_support]
    /\ added = <<>>
    /\ returned = NoReturn
    /\ created_device = NotCreated
    /\ fetched = NoFetch
    /\ builder = SwapchainBuilder_new(0, 0)
    /\ surface_support = DefaultSupport
    /\ built = NotBuilt
    /\ calls = <<>>
    /\ ViewsIdle

\* the devices of the driver's profiles, under every instance and request
InitDevice ==
    /\ instance \in Instances
    /\ driver \in {[ok |-> TRUE, devices |-> <<p>>] : p \in Profiles}
    /\ \E request \in DeviceRequests : DeviceBuilderOver(DriverRecords, request)

\* a device of every queue family table, of which one family or none can
\* present
InitQueues ==
    /\ instance = [surface |-> "surface", instance_version |-> 2, api_version |-> 2,
                   properties2_ext_enabled |-> FALSE, portability |-> FALSE]
    /\ driver = [ok |-> TRUE, devices |-> <<"base">>]
    /\ \E families \in FamilyTables :
       \E present_family \in 0..Len(families) :
           DeviceBuilderOver([ok |-> TRUE,
                              devices |-> <<TableDevice(families, present_family)>>],
                             [required_features |-> {}, requested_features_chain |-> <<>>])

NextDevice ==
    \/ Build_device
    \/ get_queue
    \/ get_dedicated_queue

SpecDevice == InitDevice /\ [][NextDevice]_vars
SpecQueues == InitQueues /\ [][NextDevice]_vars

\* ====================================================== device selection
\* the verdict set_is_suitable gives the enumerated device with handle h
\* under the selector's criteria
Verdict(h) == EvaluatedDevice(instance, selector, DriverRecords, h).suitable

Handles == DOMAIN driver.devices

OverrideOff == ~selector.criteria.use_first_gpu_unconditionally

\* C1: with the override off and a non-empty enumeration, select returns a
\* device exactly when some candidate is not Unsuitable, and the device it
\* returns is an enumerated candidate whose verdict is the lowest of all
\* candidates: never Unsuitable, and PartiallySuitable only when no
\* candidate is Suitable.
C1_SelectReturnsLowestVerdict ==
    (pc = "selected" /\ OverrideOff /\ driver.ok /\ driver.devices # <<>>) =>
        /\ selected.ok <=> \E h \in Handles : Verdict(h) # "No"
        /\ selected.ok =>
            /\ selected.device.physical_device \in Handles
            /\ selected.device.suitable = Verdict(selected.device.physical_device)
            /\ selected.device.suitable # "No"
            /\ \A h \in Handles :
                  SuitableRank(selected.device.suitable) <= SuitableRank(Verdict(h))

\* a Suitable candidate enumerated after a PartiallySuitable one was returned
C1_Witness ==
    /\ pc = "selected" /\ OverrideOff /\ selected.ok
    /\ Len(driver.devices) = 2
    /\ Verdict(1) = "Partial" /\ Verdict(2) = "Yes"
    /\ selected.device.physical_device = 2

\* the device lacks a required basic feature flag, or a field requested
\* true in a node of the required chain
LacksRequiredFeature(h) ==
    LET drv == DriverDevice(h)
        chain == selector.criteria.requested_features_chain
    IN \/ \E f \in selector.criteria.required_features : f \notin drv.features
       \/ \E i \in DOMAIN chain :
             \E f \in chain[i].fields : f \notin drv.features2[chain[i].s_type]

\* C2: a candidate that lacks a required basic feature flag, or a field
\* requested true in a node of the required FeatureChain, is Unsuitable and
\* is never returned by select (override off).
C2_MissingFeatureIsUnsuitable ==
    (pc = "selected" /\ OverrideOff) =>
        \A h \in Handles :
            LacksRequiredFeature(h) =>
                /\ Verdict(h) = "No"
                /\ ~(selected.ok /\ selected.device.physical_device = h)

AdvertisesRequiredExtensions(h) ==
    selector.criteria.required_extensions \subseteq DriverDevice(h).extensions.names

\* the scenario of C3: two candidates, int Integrated with every required
\* extension and passing the other hard checks, disc Discrete and missing a
\* required extension, preferred = Discrete and allow_any = false
C3_Scenario(int, disc) ==
    /\ Len(driver.devices) = 2 /\ int # disc
    /\ DriverDevice(int).device_type = 1
    /\ AdvertisesRequiredExtensions(int)
    /\ Verdict(int) # "No"
    /\ DriverDevice(disc).device_type = 2
    /\ ~AdvertisesRequiredExtensions(disc)
    /\ selector.criteria.preferred_device_type = "Discrete"
    /\ ~selector.criteria.allow_any_type

\* C3: a candidate that does not advertise every required extension is
\* Unsuitable whatever its category and is never returned; in the scenario
\* select returns the Integrated candidate, PartiallySuitable.
C3_MissingExtensionIsUnsuitable ==
    (pc = "selected" /\ OverrideOff) =>
        /\ \A h \in Handles :
              ~AdvertisesRequiredExtensions(h) =>
                  /\ Verdict(h) = "No"
                  /\ ~(selected.ok /\ selected.device.physical_device = h)
        /\ \A int, disc \in Handles :
              C3_Scenario(int, disc) =>
                  /\ selected.ok
                  /\ selected.device.physical_device = int
                  /\ selected.device.suitable = "Partial"

\* the scenario, with the Discrete candidate enumerated first
C3_Witness ==
    /\ pc = "selected" /\ OverrideOff
    /\ driver.ok /\ Len(driver.devices) = 2
    /\ C3_Scenario(2, 1)
    /\ selected.ok /\ selected.device.physical_device = 2

HasPreferredType(h) ==
    DriverDevice(h).device_type
        = PreferredDeviceTypeRaw(selector.criteria.preferred_device_type)

\* C4: when two or more candidates pass every hard check and one of them has
\* the preferred category, select returns a candidate of the preferred
\* category, for allow_any_type true and false.
C4_PreferredCategoryWins ==
    (/\ pc = "selected" /\ OverrideOff
     /\ Cardinality({h \in Handles : Verdict(h) # "No"}) >= 2
     /\ \E h \in Handles : Verdict(h) # "No" /\ HasPreferredType(h)) =>
        /\ selected.ok
        /\ HasPreferredType(selected.device.physical_device)

\* ============================================================ swapchain
Capabilities == surface_support.capabilities

Created == built.created

RequestedCount == built.create_info.min_image_count

\* C5: whenever build reaches swapchain creation, the image count it
\* requests lies within [surface-min, surface-max] when surface-max > 0 and
\* is at least surface-min when surface-max = 0, for every desired count and
\* every surface (min, max), the largest surface-min included.
C5_ImageCountWithinSurfaceLimits ==
    Created =>
        /\ RequestedCount >= Capabilities.min_image_count
        /\ Capabilities.max_image_count > 0 =>
               RequestedCount <= Capabilities.max_image_count

\* C6: with a nonzero desired_min_image_count d, d >= surface-min means
\* build does not fail with RequiredMinImageCountTooLow and requests the
\* surface minimum; d < surface-min means build fails with
\* RequiredMinImageCountTooLow.
C6_NonzeroDesiredCount ==
    (/\ built.outcome # "None"
     /\ surface_support.ok
     /\ builder.min_image_count >= 1) =>
        IF builder.min_image_count >= Capabilities.min_image_count
        THEN /\ built.err # "RequiredMinImageCountTooLow"
             /\ Created => RequestedCount = Capabilities.min_image_count
        ELSE built.err = "RequiredMinImageCountTooLow"

\* C7: with desired_min_image_count 0 the requested image count is
\* surface-min + 1, reduced to surface-max when surface-max is nonzero and
\* smaller (min 2, max 4 gives 3; min 4, max 4 gives 4; max 0 leaves
\* surface-min + 1 as it is).
C7_ZeroDesiredCount ==
    (Created /\ builder.min_image_count = 0) =>
        RequestedCount =
            IF /\ Capabilities.max_image_count > 0
               /\ Capabilities.min_image_count + 1 > Capabilities.max_image_count
            THEN Capabilities.max_image_count
            ELSE Capabilities.min_image_count + 1

IsSentinel == Capabilities.current_extent.width = U32_MAX

DesiredExtent == [width |-> builder.desired_width, height |-> builder.desired_height]

ClampedDesiredExtent ==
    [width |-> Max(Capabilities.min_image_extent.width,
                   Min(Capabilities.max_image_extent.width, builder.desired_width)),
     height |-> Max(Capabilities.min_image_extent.height,
                    Min(Capabilities.max_image_extent.height, builder.desired_height))]

WithinExtentBounds(extent) ==
    /\ Capabilities.min_image_extent.width <= extent.width
    /\ extent.width <= Capabilities.max_image_extent.width
    /\ Capabilities.min_image_extent.height <= extent.height
    /\ extent.height <= Capabilities.max_image_extent.height

\* C8 as stated: when the surface's current extent is the sentinel the
\* chosen extent is exactly the caller's desired width and height; otherwise
\* it is the desired extent clamped component-wise into [min-extent,
\* max-extent], and so lies within those bounds.
C8_ExtentAsStated ==
    Created =>
        IF IsSentinel
        THEN built.create_info.image_extent = DesiredExtent
        ELSE /\ built.create_info.image_extent = ClampedDesiredExtent
             /\ WithinExtentBounds(built.create_info.image_extent)

\* C8 amended: when the surface's current extent is not the sentinel the
\* chosen extent is the surface's current extent, whatever the caller
\* desired; when it is the sentinel the chosen extent is the desired extent
\* clamped component-wise into [min-extent, max-extent], and lies within
\* those bounds.
C8_ExtentFollowsSurfaceOrClamps ==
    Created =>
        IF IsSentinel
        THEN /\ built.create_info.image_extent = ClampedDesiredExtent
             /\ WithinExtentBounds(built.create_info.image_extent)
        ELSE built.create_info.image_extent = Capabilities.current_extent

\* a build on a sentinel surface whose desired width was cut to the maximum
C8_Witness ==
    /\ Created
    /\ IsSentinel
    /\ builder.desired_width > Capabilities.max_image_extent.width
    /\ built.create_info.image_extent.width = Capabilities.max_image_extent.width
    /\ built.create_info.image_extent # DesiredExtent

\* the entries of one priority, in the order the caller added them
RECURSIVE OfPriority(_, _)
OfPriority(desired, priority) ==
    IF desired = <<>> THEN <<>>
    ELSE IF Head(desired).priority = priority
         THEN <<Head(desired)>> \o OfPriority(Tail(desired), priority)
         ELSE OfPriority(Tail(desired), priority)

\* the order the claims try the desired entries in
MainThenFallback(desired) ==
    OfPriority(desired, "Main") \o OfPriority(desired, "Fallback")

IsSupported(entry) ==
    \E a \in DOMAIN surface_support.formats :
        /\ entry.format = surface_support.formats[a].format
        /\ entry.color_space = surface_support.formats[a].color_space

FirstSupported(desired) == Position(desired, IsSupported)

ChosenFormat == built.create_info.surface_format

C10_FormatSelectionNeverFails ==
    (built.outcome # "None" /\ surface_support.ok) =>
        /\ built.outcome # "Panic"
        /\ built.err # "NoSuitableDesiredFormat"
        /\ (/\ Created
            /\ FirstSupported(desired_formats_or_default(builder)) = NoIndex) =>
               ChosenFormat = surface_support.formats[1]

ModeSupported(entry) ==
    \E a \in DOMAIN surface_support.present_modes :
        entry.inner = surface_support.present_modes[a]

TriedModes == desired_present_modes_or_default(builder)

ChosenPresentMode == built.create_info.present_mode

\* C11: present-mode selection returns the first desired mode, Main before
\* Fallback, that the surface supports, and FIFO when no desired mode is
\* supported; with no desired modes configured the tried list is MAILBOX
\* (Main) then FIFO (Fallback); the result is always a surface-supported
\* mode or FIFO.
C11_PresentModeByPriority ==
    Created =>
        /\ builder.desired_present_modes = <<>> =>
               TriedModes = << [inner |-> "MAILBOX", priority |-> "Main"],
                               [inner |-> "FIFO", priority |-> "Fallback"] >>
        /\ IF \E i \in DOMAIN TriedModes : ModeSupported(TriedModes[i])
           THEN \E i \in DOMAIN TriedModes :
                    /\ TriedModes[i].inner = ChosenPresentMode
                    /\ ModeSupported(TriedModes[i])
                    /\ \A j \in DOMAIN TriedModes :
                           ModeSupported(TriedModes[j]) =>
                               PriorityRank(TriedModes[i].priority)
                                   <= PriorityRank(TriedModes[j].priority)
           ELSE ChosenPresentMode = "FIFO"
        /\ is_sorted_by_key(TriedModes) =>
               LET at == Position(TriedModes, ModeSupported)
               IN at # NoIndex => ChosenPresentMode = TriedModes[at[1] + 1].inner
        /\ \/ ChosenPresentMode = "FIFO"
           \/ \E a \in DOMAIN surface_support.present_modes :
                  surface_support.present_modes[a] = ChosenPresentMode

\* a build with a Fallback mode added before a Main mode, both supported,
\* which chose the Main mode
C11_Witness ==
    /\ Created
    /\ Len(builder.desired_present_modes) = 2
    /\ builder.desired_present_modes[1].priority = "Fallback"
    /\ builder.desired_present_modes[2].priority = "Main"
    /\ ModeSupported(builder.desired_present_modes[1])
    /\ ModeSupported(builder.desired_present_modes[2])
    /\ ChosenPresentMode = builder.desired_present_modes[2].inner
    /\ ChosenPresentMode # "FIFO"

\* build got past the surface query, the image count and the format
PastFormatSelection ==
    /\ built.outcome # "None"
    /\ surface_support.ok
    /\ built.outcome # "Panic"
    /\ built.err # "RequiredMinImageCountTooLow"

\* the present mode build chooses for a list added in priority order
ExpectedPresentMode == find_present_mode(surface_support.present_modes, TriedModes)

UsageIsSupported ==
    builder.image_usage_flags \subseteq Capabilities.supported_usage_flags

C13_SharingMode ==
    Created =>
        LET graphics == Device_get_queue(instance.surface, DriverDevice(1), "Graphics")[1]
            present == Device_get_queue(instance.surface, DriverDevice(1), "Present")[1]
        IN IF graphics # present
           THEN /\ built.create_info.image_sharing_mode = "CONCURRENT"
                /\ built.create_info.queue_family_indices = <<graphics, present>>
           ELSE /\ built.create_info.image_sharing_mode = "EXCLUSIVE"
                /\ built.create_info.queue_family_indices = <<>>

\* a creation on a device with graphics on family 0 and presentation on 2
C13_Witness ==
    /\ Created
    /\ builder.graphics_queue_index = 0
    /\ builder.present_queue_index = 2
    /\ built.create_info.image_sharing_mode = "CONCURRENT"
    /\ built.create_info.queue_family_indices = <<0, 2>>

\* C14: after set_old_swapchain(S) the image views of S are destroyed
\* before S is passed as the old handle to the create call, and the handle
\* S is destroyed only after that create call has succeeded; when the
\* create call or any earlier step of build fails, S is not destroyed.
C14_PredecessorReplacement ==
    /\ \A i \in DOMAIN calls :
           (calls[i].call = "create_swapchain" /\ calls[i].handle # 0) =>
               \E j \in 1..(i - 1) : calls[j] = Call("destroy_image_views", calls[i].handle)
    /\ Created =>
           \E i \in DOMAIN calls : calls[i] = Call("create_swapchain", builder.old_swapchain)
    /\ \A i \in DOMAIN calls :
           calls[i].call = "destroy_swapchain" =>
               /\ built.outcome = "Ok"
               /\ calls[i].handle = builder.old_swapchain
               /\ i > 1
               /\ calls[i - 1] = Call("create_swapchain", calls[i].handle)
    /\ (built.outcome = "Ok" /\ builder.old_swapchain # 0) =>
           calls[Len(calls)] = Call("destroy_swapchain", builder.old_swapchain)
    /\ built.outcome \in {"Err", "Panic"} =>
           \A i \in DOMAIN calls : calls[i].call # "destroy_swapchain"

\* a failed create call with a predecessor: its views are gone, it was
\* passed as the old handle, and it has not been destroyed
C14_Witness ==
    /\ built.err = "FailedCreateSwapchain"
    /\ builder.old_swapchain = 1
    /\ calls = << Call("destroy_image_views", 1), Call("create_swapchain", 1) >>

\* =========================================================== feature chains
RequestedChain == selector.criteria.requested_features_chain

\* the tags of a node list, in order
Tags(nodes) == [i \in DOMAIN nodes |-> nodes[i].s_type]

\* a list of tags without the later occurrences of each tag
RECURSIVE FirstOccurrences(_)
FirstOccurrences(tags) ==
    IF tags = <<>> THEN <<>>
    ELSE LET front == FirstOccurrences(SubSeq(tags, 1, Len(tags) - 1))
             last == tags[Len(tags)]
         IN IF \E i \in DOMAIN front : front[i] = last THEN front
            ELSE Append(front, last)

\* C15: after any sequence of adds the chain never holds two nodes with the
\* same type tag: adding a node whose tag is present leaves the chain's
\* length and node order unchanged, adding a node with a new tag appends
\* exactly one node at the end.
C15_OneNodePerTag ==
    /\ \A i, j \in DOMAIN RequestedChain :
           RequestedChain[i].s_type = RequestedChain[j].s_type => i = j
    /\ Tags(RequestedChain) = FirstOccurrences(Tags(added))
    /\ \A feature \in FeatureNodes :
           LET after == GenericFeatureChain_add(RequestedChain, feature)
           IN IF \E i \in DOMAIN RequestedChain :
                     RequestedChain[i].s_type = feature.s_type
              THEN Tags(after) = Tags(RequestedChain)
              ELSE /\ Len(after) = Len(RequestedChain) + 1
                   /\ SubSeq(after, 1, Len(RequestedChain)) = RequestedChain
                   /\ after[Len(after)] = feature

\* three adds, the third with the tag of the first, leaving two nodes
C15_Witness ==
    /\ Len(added) = 3
    /\ added[1].s_type = added[3].s_type
    /\ added[1].s_type # added[2].s_type
    /\ added[3].fields # added[1].fields
    /\ Tags(RequestedChain) = <<added[1].s_type, added[2].s_type>>

\* C16: merging is field-wise OR: after any sequence of adds a field of the
\* node with tag T is true iff it was true in at least one added node with
\* tag T; adding the same node twice equals adding it once, and the result
\* does not depend on the order of adds of the same tag.
C16_MergeIsFieldwiseOr ==
    /\ \A i \in DOMAIN RequestedChain :
           RequestedChain[i].fields =
               UNION {added[j].fields :
                        j \in {k \in DOMAIN added :
                                 added[k].s_type = RequestedChain[i].s_type}}
    /\ \A a \in FeatureNodes :
           GenericFeatureChain_add(GenericFeatureChain_add(RequestedChain, a), a)
               = GenericFeatureChain_add(RequestedChain, a)
    /\ \A a, b \in FeatureNodes :
           a.s_type = b.s_type =>
               GenericFeatureChain_add(GenericFeatureChain_add(RequestedChain, a), b)
                   = GenericFeatureChain_add(GenericFeatureChain_add(RequestedChain, b), a)

\* A{true} then A{false, true} gives the one node A{true, true}
C16_Witness ==
    /\ added = << [s_type |-> "Vulkan11", fields |-> {"multiview"}],
                  [s_type |-> "Vulkan11", fields |-> {"protected_memory"}] >>
    /\ RequestedChain = << [s_type |-> "Vulkan11",
                            fields |-> {"multiview", "protected_memory"}] >>

\* the chains of up to MaxAdds nodes
Chains == UNION {[1..n -> FeatureNodes] : n \in 0..MaxAdds}

\* the chains with the tags of nodes, position by position
AlignedChains(nodes) ==
    {chain \in [DOMAIN nodes -> FeatureNodes] : Tags(chain) = Tags(nodes)}

\* every requested-true field is true on the supported side
Implies(requested, supported) ==
    \A i \in DOMAIN requested : requested[i].fields \subseteq supported[i].fields

\* C17: match_all returns false whenever the requested and the supported
\* chain differ in length (a non-empty requested chain against an empty
\* supported one included), and for tag-aligned chains of equal length it
\* returns true exactly when every field true on the requested side is true
\* on the supported side; two empty chains match.
C17_MatchAllIsStrict ==
    /\ \A supported \in Chains :
           Len(supported) # Len(RequestedChain) =>
               ~match_all(supported, RequestedChain)
    /\ \A supported \in AlignedChains(RequestedChain) :
           match_all(supported, RequestedChain) = Implies(RequestedChain, supported)
    /\ match_all(<<>>, <<>>)

\* a requested chain of two nodes with a field set: it does not match the
\* empty chain, and matches itself
C17_Witness ==
    /\ Len(RequestedChain) = 2
    /\ RequestedChain[2].fields # {}
    /\ ~match_all(<<>>, RequestedChain)
    /\ ~match_all(SubSeq(RequestedChain, 1, 1), RequestedChain)
    /\ match_all(RequestedChain, RequestedChain)

\* the chains obtained from nodes by clearing some of the fields
Weakened(nodes) ==
    {chain \in AlignedChains(nodes) : Implies(chain, nodes)}

\* C19: feature matching is monotonic and reflexive: a requested chain that
\* matches a supported chain still matches after any of its fields is
\* cleared, a requested chain whose true fields are among the supported
\* ones matches, and a chain matches itself.
C19_MatchingIsMonotonic ==
    /\ \A supported \in AlignedChains(RequestedChain) :
           /\ match_all(supported, RequestedChain) =>
                  \A weaker \in Weakened(RequestedChain) : match_all(supported, weaker)
           /\ Implies(RequestedChain, supported) => match_all(supported, RequestedChain)
    /\ match_all(RequestedChain, RequestedChain)
    /\ \A i \in DOMAIN RequestedChain :
           match_features(RequestedChain[i], RequestedChain[i])

\* a requested chain with two fields set on one node: it matches itself,
\* and so does the chain with one of the two cleared
C19_Witness ==
    /\ \E i \in DOMAIN RequestedChain : Cardinality(RequestedChain[i].fields) = 2
    /\ \E weaker \in Weakened(RequestedChain) :
           /\ weaker # RequestedChain
           /\ match_all(RequestedChain, weaker)
           /\ ~match_all(weaker, RequestedChain)

\* the snapshot populate_device_details builds for candidate h
Snapshot(h) ==
    populate_device_details(instance, selector.criteria, h, DriverRecords.devices[h])

\* vkGetPhysicalDeviceFeatures2 can be called for the instance
QueryingAvailable ==
    instance.instance_version >= V1_1_0 \/ instance.properties2_ext_enabled

\* C18: in every candidate snapshot the supported feature chain is empty or
\* has the length of the requested chain and its tag at every position, so
\* the pairs match_all hands to match_features always carry equal tags; and
\* a non-empty requested chain on an instance below 1.1 without the
\* properties2 extension leaves the supported chain empty and the candidate
\* Unsuitable, so that select (override off) does not return it.
C18_SupportedChainMirrorsRequested ==
    \A h \in Handles :
        LET supported == Snapshot(h).supported_features_chain
            requested == Snapshot(h).requested_features_chain
        IN  /\ requested = selector.criteria.requested_features_chain
            /\ \/ supported = <<>>
               \/ /\ Len(supported) = Len(requested)
                  /\ Tags(supported) = Tags(requested)
            /\ Len(supported) = Len(requested) =>
                   \A i \in DOMAIN requested : requested[i].s_type = supported[i].s_type
            /\ (requested # <<>> /\ ~QueryingAvailable) =>
                   /\ supported = <<>>
                   /\ Verdict(h) = "No"
                   /\ (pc = "selected" /\ OverrideOff /\ selected.ok) =>
                          selected.device.physical_device # h

\* after select on an instance that cannot query: a candidate with a
\* requested chain, an empty supported chain and the verdict Unsuitable
C18_Witness ==
    /\ pc = "selected"
    /\ OverrideOff
    /\ ~QueryingAvailable
    /\ \E h \in Handles :
           /\ Snapshot(h).requested_features_chain # <<>>
           /\ Snapshot(h).supported_features_chain = <<>>
           /\ DriverRecords.devices[h].extensions.ok
           /\ Verdict(h) = "No"

\* the largest version and heap size a requirement names
MaxVersion == 3
MaxHeapSize == 5

\* the requirement sets obtained from criteria by adding one requirement
Strengthened(criteria) ==
    {[criteria EXCEPT !.name = n] : n \in {n \in {"gpuA", "gpuB", "gpuC"} : criteria.name = ""}}
    \cup {[criteria EXCEPT !.required_version = v] :
            v \in (criteria.required_version + 1)..MaxVersion}
    \cup {[criteria EXCEPT !.require_dedicated_transfer_queue = TRUE],
          [criteria EXCEPT !.require_dedicated_compute_queue = TRUE],
          [criteria EXCEPT !.require_separate_transfer_queue = TRUE],
          [criteria EXCEPT !.require_separate_compute_queue = TRUE]}
    \cup {[criteria EXCEPT !.required_extensions = @ \cup {e}] :
            e \in ExtensionNames \cup {"extC"}}
    \cup {[criteria EXCEPT !.required_features = @ \cup {f}] : f \in BasicFeatures}
    \cup {[criteria EXCEPT !.requested_features_chain = GenericFeatureChain_add(@, node)] :
            node \in FeatureNodes}
    \cup {[criteria EXCEPT !.required_mem_size = m] :
            m \in (criteria.required_mem_size + 1)..MaxHeapSize}
    \cup {[criteria EXCEPT !.allow_any_type = FALSE]}

\* the verdict set_is_suitable leaves on the snapshot of candidate h taken
\* under the requirement set taken, evaluated against the requirement set asked
VerdictUnder(asked, taken, h) ==
    set_is_suitable([selector EXCEPT !.criteria = asked],
                    populate_device_details(instance, taken, h, DriverRecords.devices[h]),
                    DriverRecords.devices[h])

\* C20: suitability is monotonic in the requirement set: when Q adds one
\* requirement to P (a name filter, a higher version floor, a queue
\* flag, a required extension, a required feature flag, a chain field or
\* node, a larger minimum heap size, or allow_any = false), the verdict of a
\* candidate snapshot under Q is not below its verdict under P in the
\* order Yes < Partial < No; this for the snapshot taken under P and for
\* the one taken under Q.
C20_SuitabilityIsMonotonic ==
    \A h \in Handles :
        LET P == selector.criteria
        IN  /\ VerdictUnder(P, P, h) = Verdict(h)
            /\ \A Q \in Strengthened(P) :
                   /\ SuitableRank(VerdictUnder(Q, P, h)) >= SuitableRank(Verdict(h))
                   /\ SuitableRank(VerdictUnder(Q, Q, h)) >= SuitableRank(Verdict(h))

\* after select, a Suitable candidate that one added requirement makes
\* PartiallySuitable and another makes Unsuitable, next to requirements
\* that leave it Suitable
C20_Witness ==
    /\ pc = "selected"
    /\ Requirements(selector) > 0
    /\ \E h \in Handles :
           /\ Verdict(h) = "Yes"
           /\ \E Q \in Strengthened(selector.criteria) :
                  VerdictUnder(Q, selector.criteria, h) = "Partial"
           /\ \E Q \in Strengthened(selector.criteria) :
                  VerdictUnder(Q, selector.criteria, h) = "No"
           /\ \E Q \in Strengthened(selector.criteria) :
                  VerdictUnder(Q, selector.criteria, h) = "Yes"

\* C22: with the accept-first-unconditionally override set and a non-empty
\* enumeration, select evaluates nothing and returns the first enumerated
\* device as populate_device_details and fill_out_phys_dev_with_criteria
\* leave it, whatever verdict the evaluation would give it and whatever
\* the other requirement fields are.
C22_OverrideReturnsFirstDevice ==
    (pc = "selected" /\ ~OverrideOff /\ driver.ok /\ driver.devices # <<>>) =>
        /\ selected.ok
        /\ selected.device.physical_device = 1
        /\ selected.device.suitable = "Yes"
        /\ selected.device =
               fill_out_phys_dev_with_criteria(selector.criteria, Snapshot(1))

\* the override returned a first device that the evaluation finds
\* Unsuitable, next to a second device that it finds Suitable
C22_Witness ==
    /\ pc = "selected" /\ ~OverrideOff /\ selected.ok
    /\ Len(driver.devices) = 2
    /\ Verdict(1) = "No" /\ Verdict(2) = "Yes"
    /\ selected.device.physical_device = 1

\* every candidate of a non-empty enumeration is Unsuitable
AllUnsuitable ==
    /\ driver.ok
    /\ driver.devices # <<>>
    /\ \A h \in Handles : Verdict(h) = "No"

\* C23: select reports a failed enumeration as
\* FailedToEnumeratePhysicalDevices, an empty one as NoPhysicalDevicesFound
\* and a non-empty one whose candidates are all Unsuitable (override off)
\* as NoSuitableDevice, never with a device; NoSuitableDevice is returned
\* if and only if the enumeration is non-empty, the override is off and
\* all candidates are Unsuitable.
C23_DistinctErrorKinds ==
    pc = "selected" =>
        /\ ~driver.ok =>
               selected = [ok |-> FALSE, err |-> "FailedToEnumeratePhysicalDevices",
                           device |-> NoDevice]
        /\ (driver.ok /\ driver.devices = <<>>) =>
               selected = [ok |-> FALSE, err |-> "NoPhysicalDevicesFound",
                           device |-> NoDevice]
        /\ (AllUnsuitable /\ OverrideOff) =>
               selected = [ok |-> FALSE, err |-> "NoSuitableDevice",
                           device |-> NoDevice]
        /\ (~selected.ok /\ selected.err = "NoSuitableDevice")
               <=> (AllUnsuitable /\ OverrideOff)
        /\ ~selected.ok => selected.device = NoDevice
        /\ selected.ok => selected.err = None

\* select ended with NoSuitableDevice over two Unsuitable candidates
C23_Witness ==
    /\ pc = "selected" /\ OverrideOff
    /\ Len(driver.devices) = 2
    /\ AllUnsuitable
    /\ selected.err = "NoSuitableDevice"

\* the candidates with the best verdict of the enumeration
BestCandidates ==
    {h \in Handles : \A other \in Handles :
        SuitableRank(Verdict(h)) <= SuitableRank(Verdict(other))}

\* C27: the ordered set keyed by verdict alone behaves as a stable sort by
\* verdict followed by taking the first entry: with the override off select
\* returns, among the candidates that share the best verdict (not
\* Unsuitable), the one enumerated first, and the set never loses the best
\* verdict: select succeeds whenever some candidate is not Unsuitable.
C27_FirstEnumeratedOfBestVerdict ==
    (pc = "selected" /\ OverrideOff /\ driver.ok /\ driver.devices # <<>>) =>
        /\ (\E h \in Handles : Verdict(h) # "No") => selected.ok
        /\ selected.ok =>
               /\ selected.device.physical_device \in BestCandidates
               /\ \A h \in BestCandidates : selected.device.physical_device <= h
               /\ selected.device =
                      StableSort(FilterMapDevices(instance, selector, DriverRecords, 1))[1]

\* two candidates of one name and one verdict: the first was returned
C27_Witness ==
    /\ pc = "selected" /\ OverrideOff /\ selected.ok
    /\ Len(driver.devices) = 2
    /\ driver.devices[1] = driver.devices[2]
    /\ Verdict(1) = Verdict(2)
    /\ selected.device.physical_device = 1

\* the names of a batch
NamesOf(batch) == {batch[i] : i \in DOMAIN batch}

\* C30: for a device select returned with the override off, after any
\* sequence of enable_extension_if_present and enable_extensions_if_present
\* calls the extensions to enable contain every required extension and only
\* extensions the device advertises; enable_extensions_if_present returns
\* true and adds the whole batch iff every extension of the batch is
\* advertised, and otherwise returns false and leaves the set unchanged.
C30_EnabledExtensionsAreAdvertised ==
    (pc = "selected" /\ OverrideOff /\ selected.ok) =>
        LET dev == selected.device
            advertised == DriverDevice(dev.physical_device).extensions.names
        IN  /\ dev.available_extensions = advertised
            /\ selector.criteria.required_extensions \subseteq dev.extensions_to_enable
            /\ dev.extensions_to_enable \subseteq advertised
            /\ returned.op = "enable_extensions_if_present" =>
                   /\ returned.value <=> NamesOf(returned.input) \subseteq advertised
                   /\ returned.value =>
                          dev.extensions_to_enable
                              = returned.before \cup NamesOf(returned.input)
                   /\ ~returned.value => dev.extensions_to_enable = returned.before
            /\ returned.op = "enable_extension_if_present" =>
                   dev.extensions_to_enable =
                       returned.before \cup (NamesOf(returned.input) \cap advertised)

\* a batch of an advertised and an unadvertised extension was refused on a
\* device that carries a required extension and one enabled by an earlier call
C30_Witness ==
    /\ pc = "selected" /\ OverrideOff /\ selected.ok
    /\ selector.criteria.required_extensions = {"extA"}
    /\ selected.device.extensions_to_enable = {"extA", "extB"}
    /\ returned.op = "enable_extensions_if_present"
    /\ NamesOf(returned.input) = {"extB", "extC"}
    /\ ~returned.value

\* the queue family table of the device behind the DeviceBuilder
Families == physical.device.queue_families

\* the (flag, excluded) pairs of the compute and the transfer lookups
FlagPairs == {<<{"COMPUTE"}, {"TRANSFER"}>>, <<{"TRANSFER"}, {"COMPUTE"}>>}

PairOf(queue) ==
    IF queue = "Compute" THEN <<{"COMPUTE"}, {"TRANSFER"}>>
    ELSE <<{"TRANSFER"}, {"COMPUTE"}>>

\* what the separate lookup is said to return: the first family with the
\* flag, without graphics and without the excluded flag, else the first
\* family with the flag and without graphics
FirstSeparate(families, flag, excluded) ==
    LET Candidate(f) == flag \subseteq f /\ ~({"GRAPHICS"} \subseteq f)
        Better(f) == Candidate(f) /\ ~(excluded \subseteq f)
    IN  IF \E i \in DOMAIN families : Better(families[i])
        THEN Position(families, Better)
        ELSE Position(families, Candidate)

\* C21: the separate(flag, excluded) lookup, as Device::get_queue uses it
\* for Compute and Transfer, returns the lowest-index family that has the
\* flag, lacks graphics and lacks the excluded flag if there is one,
\* otherwise the lowest-index family that has the flag and lacks graphics,
\* and none only when no family has the flag without graphics.
C21_SeparateLookupTakesFirst ==
    (fetched.op = "get_queue" /\ fetched.queue \in {"Compute", "Transfer"}) =>
        fetched.index =
            FirstSeparate(Families, PairOf(fetched.queue)[1], PairOf(fetched.queue)[2])

\* C28: whenever the dedicated lookup finds an index the separate lookup
\* returns the same index, and whenever the separate lookup finds nothing
\* the dedicated lookup finds nothing, for every (flag, excluded) pair; so
\* Device::get_dedicated_queue, when it succeeds, addresses the family
\* Device::get_queue addresses.
C28_DedicatedImpliesSeparate ==
    /\ \A pair \in FlagPairs :
           LET dedicated == get_dedicated_queue_index(Families, pair[1], pair[2])
               separate == get_separate_queue_index(Families, pair[1], pair[2])
           IN  /\ dedicated # NoIndex => separate = dedicated
               /\ separate = NoIndex => dedicated = NoIndex
    /\ (fetched.op = "get_dedicated_queue" /\ fetched.ok) =>
           fetched.index =
               Device_get_queue(created_device.surface,
                   [present_support |-> physical.present_support,
                    queue_families |-> Families],
                   fetched.queue)

\* get_dedicated_queue found the second family, behind a family that has
\* the flag next to the excluded one
C28_Witness ==
    /\ fetched.op = "get_dedicated_queue"
    /\ fetched.queue = "Compute"
    /\ fetched.ok
    /\ fetched.index = Some(1)
    /\ Families[1] = {"COMPUTE", "TRANSFER"}

\* C29: every family index Device::get_queue returns or
\* Device::get_dedicated_queue uses is below the number of queue families,
\* and DeviceBuilder::build created exactly one queue, of priority 1.0,
\* for that family, so the queue at (index, 0) exists; get_dedicated_queue
\* with Present or Graphics returns InvalidQueueFamilyIndex and fetches no
\* queue.
C29_FetchedQueueExists ==
    /\ (created_device # NotCreated /\ created_device.outcome = "Ok") =>
           LET infos == created_device.create_info.queue_create_infos
           IN  /\ Len(infos) = Len(Families)
               /\ \A i \in DOMAIN infos :
                      infos[i] = [queue_family_index |-> i - 1, queue_count |-> 1,
                                  queue_priorities |-> <<1>>]
    /\ (fetched # NoFetch /\ fetched.ok) =>
           /\ fetched.index[1] \in 0..(Len(Families) - 1)
           /\ fetched.fetches
           /\ fetched.exists
    /\ (fetched # NoFetch /\ fetched.op = "get_dedicated_queue"
            /\ fetched.queue \in {"Present", "Graphics"}) =>
           /\ ~fetched.ok
           /\ fetched.err = "InvalidQueueFamilyIndex"
           /\ ~fetched.fetches

\* get_queue found the transfer queue in the last of three families
C29_Witness ==
    /\ Len(Families) = 3
    /\ fetched.op = "get_queue"
    /\ fetched.queue = "Transfer"
    /\ fetched.ok
    /\ fetched.index = Some(2)
    /\ fetched.exists

\* the basic feature flags a device-creation call enables: those of
\* pEnabledFeatures and those of a chained VkPhysicalDeviceFeatures2
EnabledBasicFeatures(create_info) ==
    create_info.p_enabled_features
    \cup UNION {create_info.p_next[i].fields :
                  i \in {j \in DOMAIN create_info.p_next :
                            create_info.p_next[j].s_type = "Features2"}}

\* the requested nodes a device-creation call carries
AttachedNodes(create_info) ==
    {create_info.p_next[i] :
        i \in {j \in DOMAIN create_info.p_next :
                  create_info.p_next[j].s_type # "Features2"}}

\* C24: DeviceBuilder::build attaches the requested chain nodes to the
\* device-creation call only when the instance version is >= 1.1 or the
\* properties2 extension is enabled, and in both cases passes the basic
\* feature flags required at selection to device creation.
C24_BasicFeaturesAlwaysPassed ==
    (created_device # NotCreated /\ created_device.outcome = "Ok") =>
        LET create_info == created_device.create_info
            chain == selector.criteria.requested_features_chain
        IN  /\ AttachedNodes(create_info) =
                   IF QueryingAvailable THEN {chain[i] : i \in DOMAIN chain} ELSE {}
            /\ selector.criteria.required_features
                   \subseteq EnabledBasicFeatures(create_info)

\* the positions of the calls that destroy the swapchain handle
DestroysOf(handle) ==
    {i \in DOMAIN calls : calls[i] = Call("destroy_swapchain", handle)}

\* C25: across any sequence of set_old_swapchain and build calls on one
\* SwapchainBuilder no swapchain handle is destroyed more than once, and no
\* handle that has been destroyed is passed as the old handle to a later
\* create call.
C25_NoReuseOfDestroyedHandle ==
    \A handle \in OldSwapchains :
        /\ Cardinality(DestroysOf(handle)) <= 1
        /\ \A i \in DestroysOf(handle) :
               \A j \in (i + 1)..Len(calls) :
                   calls[j] # Call("create_swapchain", handle)

\* the image views that were created and not destroyed
LiveViews ==
    (1..views_created) \ {views_destroyed[i] : i \in DOMAIN views_destroyed}

RetainedViews == {image_views[i] : i \in DOMAIN image_views}

\* no thread is inside a Swapchain method
Quiescent == \A t \in Threads : threads[t] = Idle

\* C26: under any sequence and interleaving of get_image_views and
\* destroy_image_views on one Swapchain, every image view that was created
\* and not destroyed is in the retained list once the calls have returned,
\* so that a final destroy_image_views destroys all live views; no view is
\* destroyed twice.
C26_RetainedListHoldsLiveViews ==
    /\ Quiescent => LiveViews \subseteq RetainedViews
    /\ \A i, j \in DOMAIN views_destroyed :
           i # j => views_destroyed[i] # views_destroyed[j]

\* two get_image_views calls, one after the other, have returned
TwoCallsReturned ==
    /\ Quiescent
    /\ views_created = 2 * ImageCount
    /\ image_views = NewViews(ImageCount, ImageCount)

C26_SecondCallKeepsFirstViews ==
    TwoCallsReturned => LiveViews \subseteq RetainedViews

====
